---- MODULE Spec2Model ----
(***************************************************************************)
(* Frame-sequence animation engine of youtube_automation.py:               *)
(* YouTubeAutomation.create_video (the timeline driver and the typing      *)
(* state machine) and the layout decisions of create_video_frame (the      *)
(* compositor) that depend on the typing snapshot.                         *)
(*                                                                         *)
(* Text is a sequence of one-character strings.  Python floats that the    *)
(* code only ever moves in steps of 0.5 are kept as integers counted in    *)
(* halves (see HalfUnits); durations are counted in tenths of a second     *)
(* (see Ticks).                                                            *)
(*                                                                         *)
(* Further specifications apply single functions on their own: hex_to_rgb, *)
(* get_text_chunks, generate_youtube_metadata, text_to_speech_elevenlabs,  *)
(* save_content, the title card of create_video_frame, and                 *)
(* run_daily_automation run after run on one content file.                 *)
(***************************************************************************)
EXTENDS Integers, Sequences, FiniteSets, TLC

(***************************************************************************)
(* Bounds of the model.                                                    *)
(***************************************************************************)
MaxCodeLen == 3      \* longest generated code string, in characters
MaxOutLen == 2       \* longest generated output string, in characters
MaxHexLen == 7       \* longest generated colour string, in characters
MaxLineLen == 3      \* longest line handed to get_text_chunks on its own
MaxTitlePad == 100   \* longest run of filler characters in a generated title
MaxKeys == 3         \* most ElevenLabs keys configured
MaxDays == 2         \* most days in a generated content file
MaxTitleWords == 3   \* most words in a generated title
MaxRuns == 3         \* most runs of run_daily_automation on one content file
MaxSample == 4       \* latest sampled playback time, in half seconds
MaxAudio == 3        \* probed audio durations are 0..MaxAudio steps long
AudioStep == 3       \* one step of probed audio duration, in ticks

(***************************************************************************)
(* Program constants.                                                      *)
(***************************************************************************)
HalfUnits == 2       \* halves per unit: 0.5 is 1, 1 is 2
Ticks == 10          \* ticks per second: 1.5 s is 15, 10 s is 100
DefaultFps == 30     \* self.fps
VisualsFps == 15     \* automation.fps of verify_visuals.py
PacingBuffer == 15   \* 1.5 s, in ticks
FallbackDuration == 100  \* 10 s, in ticks
MAX_LINES == 14

NL == "\n"

Min(a, b) == IF a < b THEN a ELSE b
Max(a, b) == IF a > b THEN a ELSE b

(***************************************************************************)
(* Python sequence primitives.                                             *)
(***************************************************************************)
\* s[a:b] for 0 <= a, 0 <= b (0-based, end exclusive, clamped to the length)
Slice(s, a, b) == SubSeq(s, Min(a, Len(s)) + 1, Min(b, Len(s)))

\* s[:n]
Prefix(s, n) == Slice(s, 0, n)

IsPrefix(p, s) == Len(p) <= Len(s) /\ p = SubSeq(s, 1, Len(p))

\* variant: empty lines are dropped, so "" has no line at all
RECURSIVE Split_NonEmpty(_)
Split_NonEmpty(s) ==
    IF \A i \in 1..Len(s) : s[i] # NL
    THEN (IF Len(s) = 0 THEN <<>> ELSE <<s>>)
    ELSE LET i == CHOOSE j \in 1..Len(s) :
                      s[j] = NL /\ \A k \in 1..(j - 1) : s[k] # NL
         IN  (IF i = 1 THEN <<>> ELSE <<SubSeq(s, 1, i - 1)>>)
             \o Split_NonEmpty(SubSeq(s, i + 1, Len(s)))

\* code.split('\n'): always at least one line
RECURSIVE Split(_)
Split(s) ==
    IF \A i \in 1..Len(s) : s[i] # NL
    THEN <<s>>
    ELSE LET i == CHOOSE j \in 1..Len(s) :
                      s[j] = NL /\ \A k \in 1..(j - 1) : s[k] # NL
         IN  <<SubSeq(s, 1, i - 1)>> \o Split(SubSeq(s, i + 1, Len(s)))

\* '\n'.join(lines)
RECURSIVE Join(_)
Join(lines) ==
    IF Len(lines) = 0 THEN <<>>
    ELSE IF Len(lines) = 1 THEN lines[1]
    ELSE lines[1] \o <<NL>> \o Join(Tail(lines))

StringsUpTo(A, n) == UNION {[1..k -> A] : k \in 0..n}

(***************************************************************************)
(* day_data.get('output', None): an optional string.                       *)
(***************************************************************************)
None == [isNone |-> TRUE, text |-> <<>>]
Str(s) == [isNone |-> FALSE, text |-> s]

\* truth value of output_text in `if output_text`
Truthy(o) == ~o.isNone /\ Len(o.text) > 0

(***************************************************************************)
(* Content records.                                                        *)
(***************************************************************************)
CodeAlphabet == {"a", " ", NL}
OutAlphabet == {"o", NL}

SmallData ==
    {[code |-> c, output |-> o] :
        c \in StringsUpTo(CodeAlphabet, MaxCodeLen),
        o \in {None} \cup {Str(s) : s \in StringsUpTo(OutAlphabet, MaxOutLen)}}

SmallFps == {1, 2, 3}

\* test_single_video.py: test_content
HelloCode ==
    <<"p","r","i","n","t","(","'","H","e","l","l","o",",",
      " ","W","o","r","l","d","!","'",")">>
HelloOutput == <<"H","e","l","l","o",","," ","W","o","r","l","d","!">>
HelloData == [code |-> HelloCode, output |-> Str(HelloOutput)]

\* verify_visuals.py: day_data, 18 lines print('Line k')
Digits(k) ==
    LET d == <<"0","1","2","3","4","5","6","7","8","9">>
    IN  IF k < 10 THEN <<d[k + 1]>> ELSE <<d[(k \div 10) + 1], d[(k % 10) + 1]>>
LineK(k) == <<"L","i","n","e"," ">> \o Digits(k)
PrintLineK(k) == <<"p","r","i","n","t","(","'">> \o LineK(k) \o <<"'",")">>
VisualsCode == Join([k \in 1..18 |-> PrintLineK(k)])
VisualsOutput == Join(<<LineK(1), <<".",".",".">>, LineK(18)>>)
VisualsData == [code |-> VisualsCode, output |-> Str(VisualsOutput)]

\* a 20-line code block without output
TwentyCode == Join([k \in 1..20 |-> <<"a">>])
TwentyData == [code |-> TwentyCode, output |-> None]

\* outputs that exercise the output box: one line wider than the wrap limit,
\* five lines, and ten lines
WideOutput == [k \in 1..32 |-> "o"]
FiveLines == Join([k \in 1..5 |-> LineK(k)])
TenLines == Join([k \in 1..10 |-> LineK(k)])
TwelveCode == Join([k \in 1..12 |-> <<"a">>])
BoxData ==
    {[code |-> <<"a">>, output |-> Str(WideOutput)],
     [code |-> <<"a">>, output |-> Str(FiveLines)],
     [code |-> TwelveCode, output |-> Str(TenLines)]}
BoxFps == {2}

\* 22 output characters revealed over 66 output frames (fps 22, 10 s)
FloatData == [code |-> <<"a">>, output |-> Str([k \in 1..22 |-> "o"])]
FloatFps == {22}

\* a scheme of generate_dynamic_theme's random branch (base hue 120)
RandomScheme ==
    [bg1 |-> <<"#","0","2","1","9","0","2">>,
     bg2 |-> <<"#","0","a","3","3","0","a">>,
     accent |-> <<"#","f","f","0","0","f","f">>,
     text |-> <<"#","f","f","f","f","f","f">>,
     badge |-> <<"#","c","c","2","8","c","c">>]

\* colour strings that are not six hexadecimal digits
BadColours ==
    {<<"#","z","z","0","0","0","0">>, <<"#","0","0","f","f","4">>,
     <<"#","0","0","F","F","4","1","0","0">>, <<>>}

SchemeKeys == {"bg1", "bg2", "accent", "text", "badge"}

Schemes ==
    {RandomScheme}
    \cup {[RandomScheme EXCEPT ![k] = c] : k \in SchemeKeys, c \in BadColours}

SchemeData ==
    {[code |-> c, output |-> o] :
        c \in {<<>>, <<"a">>}, o \in {None, Str(<<"o">>)}}

SchemeFps == {0, 1, 2}

Inputs ==
    (SmallData \X SmallFps)
    \cup {<<HelloData, DefaultFps>>, <<VisualsData, VisualsFps>>,
          <<TwentyData, VisualsFps>>}
    \cup (BoxData \X BoxFps)
    \cup ({FloatData} \X FloatFps)

(***************************************************************************)
(* hex_to_rgb.                                                             *)
(***************************************************************************)
HexChars == <<"0","1","2","3","4","5","6","7","8","9","a","b","c","d","e","f">>
UpperHex == <<"A","B","C","D","E","F">>

IsHexDigit(c) ==
    \/ \E i \in 1..16 : HexChars[i] = c
    \/ \E i \in 1..6 : UpperHex[i] = c

HexVal(c) ==
    IF \E i \in 1..16 : HexChars[i] = c
    THEN (CHOOSE i \in 1..16 : HexChars[i] = c) - 1
    ELSE (CHOOSE i \in 1..6 : UpperHex[i] = c) + 9

Whitespace == {" ", "\t", NL}

\* s.strip()
RECURSIVE Strip(_)
Strip(s) ==
    IF Len(s) > 0 /\ s[1] \in Whitespace THEN Strip(Tail(s))
    ELSE IF Len(s) > 0 /\ s[Len(s)] \in Whitespace
         THEN Strip(SubSeq(s, 1, Len(s) - 1))
    ELSE s

\* variant: nothing is stripped
LStrip_None(s, c) == s

\* s.lstrip(c): every leading c is removed
RECURSIVE LStrip(_, _)
LStrip(s, c) == IF Len(s) > 0 /\ s[1] = c THEN LStrip(Tail(s), c) ELSE s

\* int(s, 16) for a slice s of at most two characters: surrounding white
\* space and one sign are accepted, the rest must be one or two hex digits;
\* anything else is a ValueError
IntBase16(s) ==
    LET t == Strip(s)
        signed == Len(t) > 0 /\ t[1] \in {"+", "-"}
        body == IF signed THEN Tail(t) ELSE t
        good == Len(body) >= 1 /\ \A i \in 1..Len(body) : IsHexDigit(body[i])
        mag == IF Len(body) = 1 THEN HexVal(body[1])
               ELSE 16 * HexVal(body[1]) + HexVal(body[2])
    IN  IF good
        THEN [ok |-> TRUE,
              value |-> IF signed /\ t[1] = "-" THEN 0 - mag ELSE mag]
        ELSE [ok |-> FALSE, value |-> 0]

\* tuple(int(hex_color[i:i+2], 16) for i in (0, 2, 4)) after lstrip('#')
hex_to_rgb(hex_color) ==
    LET h == LStrip(hex_color, "#")
        r == IntBase16(Slice(h, 0, 2))
        g == IntBase16(Slice(h, 2, 4))
        b == IntBase16(Slice(h, 4, 6))
    IN  IF r.ok /\ g.ok /\ b.ok
        THEN [ok |-> TRUE, rgb |-> <<r.value, g.value, b.value>>]
        ELSE [ok |-> FALSE, rgb |-> <<>>]

HexAlphabet == {"0", "f", "z", "#"}

HexSamples ==
    {<<"#","0","0","f","f","4","1">>, <<"0","0","f","f","4","1">>,
     <<"#","z","z","0","0","0","0">>, <<"#","0","0","f","f","4">>,
     <<"+","f","0","0","0","0">>, <<"#","0","0","F","F","4","1","0","0">>}

HexInputs == StringsUpTo(HexAlphabet, MaxHexLen) \cup HexSamples

(***************************************************************************)
(* get_text_chunks: the segments of one line and their colours.            *)
(***************************************************************************)
UpperCase == <<"A","B","C","D","E","F","G","H","I","J","K","L","M",
               "N","O","P","Q","R","S","T","U","V","W","X","Y","Z">>
LowerCase == <<"a","b","c","d","e","f","g","h","i","j","k","l","m",
               "n","o","p","q","r","s","t","u","v","w","x","y","z">>

\* text.lower()
Lower(s) ==
    [i \in 1..Len(s) |->
        IF \E k \in 1..26 : UpperCase[k] = s[i]
        THEN LowerCase[CHOOSE k \in 1..26 : UpperCase[k] = s[i]]
        ELSE s[i]]

\* sub in s
Contains(sub, s) ==
    \E i \in 0..(Len(s) - Len(sub)) : Slice(s, i, i + Len(sub)) = sub

\* s.startswith(p)
StartsWith(s, p) == IsPrefix(p, s)

IsDigit(c) == c \in {"0","1","2","3","4","5","6","7","8","9"}

keywords ==
    {<<"p","r","i","n","t">>, <<"d","e","f">>, <<"c","l","a","s","s">>,
     <<"i","f">>, <<"e","l","s","e">>, <<"e","l","i","f">>, <<"f","o","r">>,
     <<"w","h","i","l","e">>, <<"i","m","p","o","r","t">>,
     <<"r","e","t","u","r","n">>, <<"t","r","u","e">>,
     <<"f","a","l","s","e">>, <<"n","u","l","l">>, <<"n","o","n","e">>,
     <<"v","a","r">>, <<"l","e","t">>, <<"c","o","n","s","t">>,
     <<"f","u","n","c","t","i","o","n">>, <<"f","u","n","c">>,
     <<"p","u","b","l","i","c">>, <<"p","r","i","v","a","t","e">>,
     <<"p","r","o","t","e","c","t","e","d">>, <<"v","o","i","d">>,
     <<"i","n","t">>, <<"s","t","r","i","n","g">>, <<"b","o","o","l">>,
     <<"f","l","o","a","t">>}

\* variant: the quote rule is tried before the keyword rule
FallbackColor_QuoteFirst(text) ==
    IF StartsWith(Strip(text), <<"#">>) \/ StartsWith(Strip(text), <<"/","/">>)
    THEN "#808080"
    ELSE IF Contains(<<"\"">>, text) \/ Contains(<<"'">>, text)
    THEN "#00ff88"
    ELSE IF \E kw \in keywords : Contains(kw, Lower(text))
    THEN "#ff3e9d"
    ELSE IF \E i \in 1..Len(text) : IsDigit(text[i])
    THEN "#ffff00"
    ELSE "#ffffff"

\* the heuristic of the fallback path: one segment, coloured by the first
\* rule that matches
FallbackColor(text) ==
    IF StartsWith(Strip(text), <<"#">>) \/ StartsWith(Strip(text), <<"/","/">>)
    THEN "#808080"
    ELSE IF \E kw \in keywords : Contains(kw, Lower(text))
    THEN "#ff3e9d"
    ELSE IF Contains(<<"\"">>, text) \/ Contains(<<"'">>, text)
    THEN "#00ff88"
    ELSE IF \E i \in 1..Len(text) : IsDigit(text[i])
    THEN "#ffff00"
    ELSE "#ffffff"

\* s.strip('\n')
RECURSIVE StripNewlines(_)
StripNewlines(s) ==
    IF Len(s) > 0 /\ s[1] = NL THEN StripNewlines(Tail(s))
    ELSE IF Len(s) > 0 /\ s[Len(s)] = NL
         THEN StripNewlines(SubSeq(s, 1, Len(s) - 1))
    ELSE s

\* what Lexer.get_tokens lexes with the default options stripnl and
\* ensurenl: newlines at both ends are removed and one newline is appended
LexInput(text) ==
    LET t == StripNewlines(text)
    IN  IF Len(t) > 0 /\ t[Len(t)] = NL THEN t ELSE t \o <<NL>>

\* token types by character class
TokenType(c) ==
    IF IsDigit(c) THEN "Number"
    ELSE IF c \in Whitespace THEN "Text"
    ELSE IF c = "\"" \/ c = "'" THEN "String"
    ELSE IF c = "#" THEN "Comment"
    ELSE "Name"

\* the tokens of t from position i: a comment runs to the end of its line,
\* any other token is a maximal run of one character class; the values
\* cover t without gap or overlap
RECURSIVE Tokens(_, _)
Tokens(t, i) ==
    IF i >= Len(t) THEN <<>>
    ELSE LET ty == TokenType(t[i + 1])
             In(k) == IF ty = "Comment" THEN t[k + 1] # NL
                      ELSE TokenType(t[k + 1]) = ty
             j == CHOOSE e \in (i + 1)..Len(t) :
                      /\ \A k \in (i + 1)..(e - 1) : In(k)
                      /\ e = Len(t) \/ ~In(e)
         IN  <<[type |-> ty, value |-> Slice(t, i, j)]>> \o Tokens(t, j)

KnownLanguages == {"python"}

\* lex(text, lexer): the lexer of the language, or the plain text lexer
\* (one Text token) when the language has none
lex(text, language) ==
    IF language \in KnownLanguages
    THEN Tokens(LexInput(text), 0)
    ELSE <<[type |-> "Text", value |-> LexInput(text)]>>

\* the STYLE_MAP lookup walking up the token hierarchy; Name has no entry
StyleColor(type) ==
    IF type = "Number" THEN "#bd93f9"
    ELSE IF type = "String" THEN "#f1fa8c"
    ELSE IF type = "Comment" THEN "#6272a4"
    ELSE "#f8f8f2"

\* get_text_chunks(text, language); has_pygments is the module's
\* HAS_PYGMENTS and lex_raises says whether the lexer library raised
get_text_chunks(text, language, has_pygments, lex_raises) ==
    IF Len(text) = 0 THEN <<>>
    ELSE IF has_pygments /\ ~lex_raises
    THEN LET tokens == lex(text, language)
         IN  [i \in 1..Len(tokens) |->
                 [text |-> tokens[i].value, color |-> StyleColor(tokens[i].type)]]
    ELSE <<[text |-> text, color |-> FallbackColor(text)]>>

ChunkAlphabet == {"i", "F", "1", " ", "#", "\"", "/"}
Languages == {"python", "klingon"}
ChunkInputs ==
    {[text |-> t, language |-> l, has_pygments |-> h, lex_raises |-> r] :
        t \in StringsUpTo(ChunkAlphabet, MaxLineLen), l \in Languages,
        h \in BOOLEAN, r \in BOOLEAN}

(***************************************************************************)
(* generate_youtube_metadata: the title of the returned metadata.          *)
(***************************************************************************)
TitleLimit == 100          \* title[:100], line 983

ShortsTag == <<"#","s","h","o","r","t","s">>
ViralTag == <<"#","v","i","r","a","l">>

\* s.replace(c, "") for a one-character c
Remove(s, c) ==
    LET Kept(ch) == ch # c
    IN  SelectSeq(s, Kept)

\* lines 953-955: a missing tag is appended after a blank
EnforceTag(title, tag) ==
    IF ~Contains(tag, Lower(title)) THEN title \o <<" ">> \o tag ELSE title

\* lines 953-958 and 983: the title of the returned metadata
MetadataTitle(ai_title) ==
    LET tagged == EnforceTag(EnforceTag(ai_title, ShortsTag), ViralTag)
        clean == Remove(Remove(tagged, "<"), ">")
    IN  Prefix(clean, TitleLimit)

\* generate_youtube_metadata(day_data) for the title the model answered;
\* without a configured model the function falls off its end
generate_youtube_metadata(has_ai, ai_title) ==
    IF has_ai THEN [isNone |-> FALSE, title |-> MetadataTitle(ai_title)]
    ELSE [isNone |-> TRUE, title |-> <<>>]

TitleEndings ==
    {<<>>, <<" ">> \o ShortsTag \o <<" ">> \o ViralTag, <<"#","S","H","O","R","T","S">>,
     <<" ">> \o ViralTag, <<"<","b",">">>, <<"!">>}
AiTitles ==
    {[k \in 1..n |-> "A"] \o e : n \in 0..MaxTitlePad, e \in TitleEndings}

(***************************************************************************)
(* text_to_speech_elevenlabs and check_elevenlabs_quota.  The answers of   *)
(* the two services are inputs: one subscription answer per configured     *)
(* key, the answer to the synthesis request, and the outcome of gTTS.      *)
(***************************************************************************)
QuotaMargin == 50          \* remaining > len(text) + 50, line 322

\* check_elevenlabs_quota: character_limit - character_count of a 200
\* answer, 0 for any other status and for an exception
check_elevenlabs_quota(answer) ==
    IF answer.status = "200" THEN answer.character_limit - answer.character_count
    ELSE 0

\* variant: a key whose remaining quota equals the need is accepted
SelectKey_AtLeast(answers, i, text_len) ==
    LET ok == {k \in i..(Len(answers) - 1) :
                  check_elevenlabs_quota(answers[k + 1]) >= text_len + QuotaMargin}
    IN  IF ok = {} THEN [found |-> FALSE, index |-> 0, checked |-> Len(answers)]
        ELSE LET k == CHOOSE k \in ok : \A j \in ok : k <= j
             IN  [found |-> TRUE, index |-> k, checked |-> k + 1]

\* the loop over self.elevenlabs_keys from index i: the first key whose
\* remaining quota is above the need is taken and the loop is left
RECURSIVE SelectKey(_, _, _)
SelectKey(answers, i, text_len) ==
    IF i >= Len(answers)
    THEN [found |-> FALSE, index |-> 0, checked |-> Len(answers)]
    ELSE IF check_elevenlabs_quota(answers[i + 1]) > text_len + QuotaMargin
    THEN [found |-> TRUE, index |-> i, checked |-> i + 1]
    ELSE SelectKey(answers, i + 1, text_len)

\* text_to_speech_elevenlabs(text, output_path)
text_to_speech_elevenlabs(text_len, answers, post, gtts) ==
    LET key == SelectKey(answers, 0, text_len)
        requested == Len(answers) > 0 /\ key.found
        eleven == requested /\ post = "200"
    IN  [valid_key |-> IF Len(answers) > 0 /\ key.found THEN key.index ELSE 0 - 1,
         requested |-> requested,
         eleven_wrote |-> eleven,
         gtts_tried |-> ~eleven,
         gtts_wrote |-> ~eleven /\ gtts = "saved",
         returned |-> eleven \/ gtts = "saved"]

QuotaAnswers ==
    {[status |-> "200", character_limit |-> 100, character_count |-> 39],
     [status |-> "200", character_limit |-> 100, character_count |-> 40],
     [status |-> "401", character_limit |-> 0, character_count |-> 0],
     [status |-> "exception", character_limit |-> 0, character_count |-> 0]}
PostAnswers == {"200", "401", "500", "exception", "200 write fails"}
GttsOutcomes == {"saved", "ImportError", "exception"}
TextLengths == {10, 11}
TtsInputs ==
    {[text_len |-> n, answers |-> a, post |-> p, gtts |-> g] :
        n \in TextLengths, a \in StringsUpTo(QuotaAnswers, MaxKeys),
        p \in PostAnswers, g \in GttsOutcomes}

(***************************************************************************)
(* save_content: the content file and the temporary file.  The content is  *)
(* the list of the days' statuses; a file is the sequence of chunks that   *)
(* json.dump has written to it.                                            *)
(***************************************************************************)
\* json.dump(data, tmp, indent=2): the chunks of the encoder, in order
Dumps(data) ==
    <<"{", "\"days\": [">> \o [i \in 1..Len(data) |-> data[i]] \o <<"]", "}">>

Statuses == {"uploaded", "pending"}
SaveData == StringsUpTo(Statuses, MaxDays)

\* the except block of save_content (lines 183-187) before it re-raises:
\* the temporary file is removed if temp_file has been assigned
SaveHandler(st) ==
    [st EXCEPT !.temp_exists =
        IF st.temp_file # "None" /\ st.temp_exists THEN FALSE ELSE @]

(***************************************************************************)
(* run_daily_automation: the content file read back.  A file is parsed as  *)
(* json reads it, chunk by chunk.                                          *)
(***************************************************************************)
\* the position of the first "]" of the file from position i on, or 0
RECURSIVE ListEnd(_, _)
ListEnd(file, i) ==
    IF i > Len(file) THEN 0
    ELSE IF file[i] = "]" THEN i
    ELSE IF file[i] \in Statuses THEN ListEnd(file, i + 1)
    ELSE 0

\* JSONDecoder().raw_decode(content): the first JSON value of the text and
\* the position where it ends (line 159)
raw_decode(content) ==
    LET close == IF Len(content) >= 3 /\ content[1] = "{"
                                      /\ content[2] = "\"days\": ["
                 THEN ListEnd(content, 3)
                 ELSE 0
    IN  IF close > 0 /\ close < Len(content) /\ content[close + 1] = "}"
        THEN [ok |-> TRUE, data |-> SubSeq(content, 3, close - 1),
              index |-> close + 1]
        ELSE [ok |-> FALSE, data |-> <<>>, index |-> 0]

\* json.load(f): the text must be one JSON value and nothing more
json_load(content) ==
    LET first == raw_decode(content)
    IN  [ok |-> first.ok /\ first.index = Len(content), data |-> first.data]

\* variant: the last day that is not uploaded is taken
get_next_pending_day_Last(days) ==
    IF \E i \in 1..Len(days) : days[i] # "uploaded"
    THEN CHOOSE i \in 1..Len(days) :
            /\ days[i] # "uploaded"
            /\ \A j \in (i + 1)..Len(days) : days[j] = "uploaded"
    ELSE 0

\* get_next_pending_day: the position (from 1) of the first day whose status
\* is not 'uploaded', 0 for None
get_next_pending_day(days) ==
    IF \E i \in 1..Len(days) : days[i] # "uploaded"
    THEN CHOOSE i \in 1..Len(days) :
            /\ days[i] # "uploaded"
            /\ \A j \in 1..(i - 1) : days[j] = "uploaded"
    ELSE 0

\* datetime.now().strftime('%Y-%m-%d') at the launch guard (line 1032)
LaunchGuardDate == "2026-01-06"
Dates == {"2026-01-06", "2026-01-07"}

\* content files: one JSON value, two values one after the other, and texts
\* that hold no JSON value
ContentFiles ==
    {Dumps(d) : d \in SaveData}
        \cup {Dumps(d) \o Dumps(e) : d, e \in SaveData}
        \cup {<<>>, <<"{">>}

(***************************************************************************)
(* create_video_frame: the title card.  A code point outside ASCII is the  *)
(* one element "<emoji>"; the width of a text is the sum of the advances   *)
(* of its characters in the title font.                                    *)
(***************************************************************************)
Width == 1080              \* self.width, line 122
TitleMargin == 180         \* max_width = self.width - 180, line 583

NonAscii == {"<emoji>"}

\* title.encode('ascii', 'ignore').decode('ascii')
RECURSIVE AsciiOnly(_)
AsciiOnly(s) ==
    IF Len(s) = 0 THEN <<>>
    ELSE IF Head(s) \in NonAscii THEN AsciiOnly(Tail(s))
    ELSE <<Head(s)>> \o AsciiOnly(Tail(s))

\* f"Day {day}: {clean_title}"
full_title(day, title) ==
    <<"D","a","y"," ">> \o Digits(day) \o <<":"," ">> \o Strip(AsciiOnly(title))

\* s.split(): the maximal runs of characters that are not white space
RECURSIVE SplitWords(_, _)
SplitWords(s, word) ==
    IF Len(s) = 0 THEN (IF Len(word) > 0 THEN <<word>> ELSE <<>>)
    ELSE IF Head(s) \in Whitespace
         THEN (IF Len(word) > 0 THEN <<word>> ELSE <<>>) \o SplitWords(Tail(s), <<>>)
    ELSE SplitWords(Tail(s), Append(word, Head(s)))

\* ' '.join(words)
RECURSIVE JoinWords(_)
JoinWords(words) ==
    IF Len(words) = 0 THEN <<>>
    ELSE IF Len(words) = 1 THEN words[1]
    ELSE words[1] \o <<" ">> \o JoinWords(Tail(words))

\* advance of one character: DejaVuSans-Bold at 65 px, or the small bitmap
\* font of ImageFont.load_default()
CharWidth(c, font) ==
    IF font = "default" THEN 6
    ELSE IF c = "W" THEN 72
    ELSE IF c = "i" \/ c = " " \/ c = ":" THEN 23
    ELSE 45

\* bbox[2] - bbox[0] of textbbox((0, 0), text, font=title_font)
RECURSIVE Measure(_, _)
Measure(text, font) ==
    IF Len(text) = 0 THEN 0
    ELSE CharWidth(Head(text), font) + Measure(Tail(text), font)

\* variant: every test line is taken to fit
Fits_Always(test_line, font) == TRUE

\* (bbox[2] - bbox[0]) < max_width
Fits(test_line, font) == Measure(test_line, font) < Width - TitleMargin

\* the word wrap loop (lines 585-595) from word i on, with the lines closed
\* so far and the words of the open line
RECURSIVE WrapWords(_, _, _, _, _)
WrapWords(words, i, lines, current, font) ==
    IF i > Len(words)
    THEN (IF Len(current) > 0 THEN Append(lines, JoinWords(current)) ELSE lines)
    ELSE IF Fits(JoinWords(Append(current, words[i])), font)
    THEN WrapWords(words, i + 1, lines, Append(current, words[i]), font)
    ELSE WrapWords(words, i + 1,
                   IF Len(current) > 0 THEN Append(lines, JoinWords(current))
                   ELSE lines,
                   <<words[i]>>, font)

\* lines 574-600: the lines of the title card and its height
title_lines(day, title, font) ==
    LET lines == WrapWords(SplitWords(full_title(day, title), <<>>), 1,
                           <<>>, <<>>, font)
    IN  [lines |-> lines, card_h |-> (Len(lines) * 70) + (50 * 2)]

TitleWords ==
    {<<"i">>, [k \in 1..8 |-> "W"], [k \in 1..13 |-> "W"], <<"<emoji>">>,
     <<"W","<emoji>","i">>}
TitleInputs ==
    {[day |-> d, title |-> JoinWords(w), font |-> f] :
        d \in {1, 10}, w \in StringsUpTo(TitleWords, MaxTitleWords),
        f \in {"dejavu", "default"}}

(***************************************************************************)
(* create_video_frame: the layout decisions that depend on the typing      *)
(* snapshot.                                                               *)
(***************************************************************************)
\* variant: the offset wraps to the top once the window is full
scroll_offset_Wrap(code_progress) ==
    Max(0, ((Len(code_progress) - 1) % MAX_LINES) - (MAX_LINES - 3))

\* variant: scrolling starts only once the window is full
scroll_offset_Late(code_progress) == Max(0, (Len(code_progress) - 1) - MAX_LINES)

scroll_offset(code_progress) == Max(0, (Len(code_progress) - 1) - (MAX_LINES - 3))

visible_lines(code_lines, code_progress) ==
    Slice(code_lines, scroll_offset(code_progress),
          scroll_offset(code_progress) + MAX_LINES)

\* the colours create_video_frame and its helpers hand to hex_to_rgb: bg1 and
\* bg2 (create_animated_bg), accent (grid, cards, glow, highlight, progress
\* bar) and badge; scheme['text'] is not read.  A ValueError of hex_to_rgb
\* leaves the call.
ColoursParse(sch) ==
    /\ hex_to_rgb(sch.bg1).ok
    /\ hex_to_rgb(sch.bg2).ok
    /\ hex_to_rgb(sch.accent).ok
    /\ hex_to_rgb(sch.badge).ok

card_height == 1200        \* line 625
RowTop == 150              \* y_offset of the first code row, line 661
RowPitch == 60             \* y_offset += 60, lines 688 and 703
HighlightHeight == 50      \* the band [y_offset, y_offset + 50], line 683
OutCharLimit == 30         \* len(temp_l) > 30, lines 739 and 783

\* the wrap loop of the output box (lines 732-742 and 777-786): a line ends
\* at a newline, or as soon as it holds more than 30 characters; what is
\* left at the end is a line if it is not empty
RECURSIVE WrapFrom(_, _, _)
WrapFrom(text, i, temp_l) ==
    IF i > Len(text) THEN (IF Len(temp_l) > 0 THEN <<temp_l>> ELSE <<>>)
    ELSE IF text[i] = NL THEN <<temp_l>> \o WrapFrom(text, i + 1, <<>>)
    ELSE IF Len(temp_l) + 1 > OutCharLimit
         THEN <<Append(temp_l, text[i])>> \o WrapFrom(text, i + 1, <<>>)
    ELSE WrapFrom(text, i + 1, Append(temp_l, text[i]))

\* variant: the box is sized from the revealed part of the output
full_out_lines_Revealed(output_text, displayed_output) ==
    WrapFrom(displayed_output, 1, <<>>)

\* full_out_lines: the wrapped lines of the complete output text
full_out_lines(output_text, displayed_output) == WrapFrom(output_text, 1, <<>>)

\* out_lines: the wrapped lines of the revealed output
out_lines(displayed_output) == WrapFrom(displayed_output, 1, <<>>)

\* max(3, min(8, num_lines))
display_lines_count(num_lines) == Max(3, Min(8, num_lines))

\* header_height + display_lines_count * line_height + padding_bottom
output_box_height(num_lines) == 40 + (display_lines_count(num_lines) * 40) + 25

\* card_height - output_box_height - 30
output_y_start(box_height) == card_height - box_height - 30

\* variant: the first n lines are kept
LastN_First(lines, n) == Slice(lines, 0, n)

\* out_lines[-display_lines_count:]
LastN(lines, n) == Slice(lines, Max(0, Len(lines) - n), Len(lines))

\* int(t_val * rate) % 2 == 0, t_val = frame_num / fps kept as the pair
Blink(t_val, rate) == ((t_val[1] * rate) \div t_val[2]) % 2 = 0

\* variant: a blank line does not move y_offset down
code_rows_SkipBlank(code_lines, code_progress) ==
    LET off == scroll_offset(code_progress)
        vis == visible_lines(code_lines, code_progress)
        n == Max(0, Min(Len(vis), Len(code_progress) - off))
        Above(i) == Cardinality({h \in 1..(i - 1) :
                                    Strip(code_progress[h + off]) # <<>>})
    IN  [i \in 1..n |->
            [original_idx |-> (i - 1) + off,
             y_offset |-> RowTop + RowPitch * Above(i),
             highlighted |-> /\ (i - 1) + off = Len(code_progress) - 1
                             /\ Len(code_progress) <= Len(code_lines),
             displayed_line |-> code_progress[i + off],
             text_drawn |-> Strip(code_progress[i + off]) # <<>>]]

\* the rows drawn by the loop over visible_lines: it stops at the first line
\* that has no snapshot entry, and every drawn line, blank or not, moves
\* y_offset down by one pitch
code_rows(code_lines, code_progress) ==
    LET off == scroll_offset(code_progress)
        vis == visible_lines(code_lines, code_progress)
        n == Max(0, Min(Len(vis), Len(code_progress) - off))
    IN  [i \in 1..n |->
            [original_idx |-> (i - 1) + off,
             y_offset |-> RowTop + RowPitch * (i - 1),
             highlighted |-> /\ (i - 1) + off = Len(code_progress) - 1
                             /\ Len(code_progress) <= Len(code_lines),
             displayed_line |-> code_progress[i + off],
             text_drawn |-> Strip(code_progress[i + off]) # <<>>]]

\* the code cursor (lines 706-720)
cursor(code_progress, t_val) ==
    LET last_visible_idx == Len(code_progress) - 1 - scroll_offset(code_progress)
    IN  IF Len(code_progress) > 0 /\ 0 <= last_visible_idx
                                  /\ last_visible_idx < MAX_LINES
        THEN [in_view |-> TRUE,
              cursor_y |-> RowTop + last_visible_idx * RowPitch,
              drawn |-> Blink(t_val, 2)]
        ELSE [in_view |-> FALSE, cursor_y |-> 0, drawn |-> FALSE]

\* variant: the compositor cuts the caller's list down to the scrolled window
code_progress_after_Window(code_progress) ==
    Slice(code_progress, scroll_offset(code_progress), Len(code_progress))

\* the caller's list after a call of create_video_frame, which only takes
\* len(code_progress), code_progress[original_idx] and code_progress[-1]
code_progress_after(code_progress) == code_progress

create_video_frame(code_lines, output_text, code_progress, output_progress, show_output, t_val) ==
    LET box == show_output /\ Truthy(output_text)
        displayed_output == IF box THEN Prefix(output_text.text, output_progress)
                            ELSE <<>>
        num_lines == IF box
                     THEN Len(full_out_lines(output_text.text, displayed_output))
                     ELSE 0
    IN  [active_line_idx |-> Len(code_progress) - 1,
         scroll_offset |-> scroll_offset(code_progress),
         visible_lines |-> visible_lines(code_lines, code_progress),
         code_rows |-> code_rows(code_lines, code_progress),
         cursor |-> cursor(code_progress, t_val),
         output_box |-> box,
         displayed_output |-> displayed_output,
         num_lines |-> num_lines,
         output_box_height |-> IF box THEN output_box_height(num_lines) ELSE 0,
         output_y_start |->
            IF box THEN output_y_start(output_box_height(num_lines)) ELSE 0,
         visible_out |->
            IF box THEN LastN(out_lines(displayed_output),
                              display_lines_count(num_lines))
            ELSE <<>>,
         output_cursor |->
            /\ box
            /\ output_progress < Len(output_text.text)
            /\ Blink(t_val, 4)]

(***************************************************************************)
(* create_video: arithmetic of the timeline.                               *)
(***************************************************************************)
\* variant: the product is rounded to the nearest integer
TotalFrames_Round(duration, fps) == (duration * fps + Ticks \div 2) \div Ticks

\* int(duration * self.fps), duration in ticks.  For the durations and frame
\* rates enumerated here the IEEE double product truncates to the same
\* integer as the exact product.
TotalFrames(duration, fps) == (duration * fps) \div Ticks

\* variant: the code phase gets half of the frames
CodeFrames_Half(total_frames) == (total_frames * 5) \div 10

\* variant: the code phase is the whole run
CodeFrames_All(total_frames) == total_frames

\* int(total_frames * 0.6)
CodeFrames(total_frames) == (total_frames * 6) \div 10

\* int(total_frames * 0.3) if output_text else 0
\* variant: the output phase takes all of the run that the code phase leaves
OutputFrames_Rest(total_frames, output_text) ==
    IF Truthy(output_text) THEN total_frames - (total_frames * 6) \div 10 ELSE 0

\* int(total_frames * 0.3) if output_text else 0
OutputFrames(total_frames, output_text) ==
    IF Truthy(output_text) THEN (total_frames * 3) \div 10 ELSE 0

\* Triples <<k, n, len>> with n < 100 and len < 40 for which the IEEE double
\* product (k / n) * len falls just below the integer k * len / n.
FloatShort ==
    {<<15, 22, 22>>, <<13, 23, 23>>, <<15, 26, 26>>, <<31, 39, 39>>,
     <<30, 44, 22>>, <<26, 46, 23>>, <<30, 52, 26>>, <<45, 66, 22>>,
     <<39, 69, 23>>, <<45, 78, 26>>, <<62, 78, 39>>, <<60, 88, 22>>,
     <<52, 92, 23>>}

\* variant: the frame is counted inclusively, so the last output frame
\* already shows the whole text
OutputProgress_Inclusive(frame_num, code_frames, output_frames, len) ==
    (((frame_num - code_frames) + 1) * len) \div output_frames

\* int(((frame_num - code_frames) / output_frames) * len(output_text))
OutputProgress(frame_num, code_frames, output_frames, len) ==
    LET k == frame_num - code_frames
    IN  ((k * len) \div output_frames)
        - (IF <<k, output_frames, len>> \in FloatShort THEN 1 ELSE 0)

\* variant: the code phase ends one frame before code_frames
Phase_OneEarly(f, cf, of, text) ==
    IF f + 1 < cf THEN "TYPING_CODE"
    ELSE IF Truthy(text) /\ f < cf + of THEN "TYPING_OUTPUT"
    ELSE "HOLD"

\* variant: the comparison of the elif is reversed
Phase_Reversed(f, cf, of, text) ==
    IF f < cf THEN "TYPING_CODE"
    ELSE IF Truthy(text) /\ f >= cf + of THEN "TYPING_OUTPUT"
    ELSE "HOLD"

\* variant: the elif tests output_text alone
Phase_Unbounded(f, cf, of, text) ==
    IF f < cf THEN "TYPING_CODE"
    ELSE IF Truthy(text) THEN "TYPING_OUTPUT"
    ELSE "HOLD"

\* the if / elif / else of the loop body (lines 868, 881, 886)
Phase(f, cf, of, text) ==
    IF f < cf THEN "TYPING_CODE"
    ELSE IF Truthy(text) /\ f < cf + of THEN "TYPING_OUTPUT"
    ELSE "HOLD"

\* variant: a line of white space is shown complete at once
Typed_BlankWhole(line, char) ==
    IF Strip(line) = <<>> THEN line ELSE Slice(line, 0, char \div HalfUnits)

\* variant: the accumulator is rounded up, so a character shows one frame
\* early
Typed_Ceil(line, char) == Slice(line, 0, (char + 1) \div HalfUnits)

\* variant: the slice is taken from the wrong end, line[int(current_char):]
Typed_Suffix(line, char) == Slice(line, char \div HalfUnits, Len(line))

\* line[:int(current_char)], current_char in half characters
Typed(line, char) == Prefix(line, char \div HalfUnits)

\* variant: the output branch keeps the snapshot typing had reached
OutputSnapshot_Keep(lines, progress) == progress

\* code_progress = code_lines.copy() of the output branch
OutputSnapshot(lines, progress) == lines

\* variant: the last character of the output is held back
HoldProgress_Short(output_text) ==
    IF Truthy(output_text) THEN Len(output_text.text) - 1 ELSE 0

\* len(output_text) if output_text else 0
HoldProgress(output_text) ==
    IF Truthy(output_text) THEN Len(output_text.text) ELSE 0

\* variant: the else branch keeps the typing snapshot
HoldSnapshot_Keep(lines, progress) == progress

\* code_progress = code_lines.copy() of the else branch
HoldSnapshot(lines, progress) == lines

\* variant: the pacing buffer is left out
ProbedDuration_NoBuffer(a) == a

\* duration = audio.duration + 1.5
ProbedDuration(a) == a + PacingBuffer

VARIABLES
    pc,              \* position in create_video
    day_data,        \* the content record
    fps,             \* self.fps
    audio,           \* the audio track of the clip
    duration,        \* in ticks
    code_lines,
    output_text,
    total_frames,
    code_frames,
    output_frames,
    frames,
    chars_per_frame, \* in half characters
    current_line,
    current_char,    \* in half characters
    code_progress,
    frame_num,
    video_clip,      \* the returned clip
    scheme,          \* the colour scheme handed to create_video
    call             \* the latest call of a function applied on its own

vars == <<pc, day_data, fps, audio, duration, code_lines, output_text,
          total_frames, code_frames, output_frames, frames, chars_per_frame,
          current_line, current_char, code_progress, frame_num, video_clip,
          scheme, call>>

NoCall == [fn |-> "none", args |-> <<>>, result |-> <<>>]
NoAudio == [kind |-> "none", duration |-> 0]
NoClip == [made |-> FALSE, duration |-> 0, audio |-> NoAudio, nframes |-> 0]

\* locals of create_video before the call has assigned them
Unassigned ==
    /\ audio = NoAudio
    /\ duration = 0
    /\ code_lines = <<>>
    /\ output_text = None
    /\ total_frames = 0
    /\ code_frames = 0
    /\ output_frames = 0
    /\ frames = <<>>
    /\ chars_per_frame = 0
    /\ current_line = 0
    /\ current_char = 0
    /\ code_progress = <<>>
    /\ frame_num = 0
    /\ video_clip = NoClip

Init ==
    /\ \E in \in Inputs : day_data = in[1] /\ fps = in[2]
    /\ pc = "audio"
    /\ audio = NoAudio
    /\ duration = 0
    /\ code_lines = <<>>
    /\ output_text = None
    /\ total_frames = 0
    /\ code_frames = 0
    /\ output_frames = 0
    /\ frames = <<>>
    /\ chars_per_frame = 0
    /\ current_line = 0
    /\ current_char = 0
    /\ code_progress = <<>>
    /\ frame_num = 0
    /\ video_clip = NoClip
    /\ scheme = RandomScheme
    /\ call = NoCall

\* lines 844-862, after the duration is known
Prepare(d) ==
    /\ duration' = d
    /\ code_lines' = Split(day_data.code)
    /\ output_text' = day_data.output
    /\ total_frames' = TotalFrames(d, fps)
    /\ code_frames' = CodeFrames(TotalFrames(d, fps))
    /\ output_frames' = OutputFrames(TotalFrames(d, fps), day_data.output)
    /\ frames' = <<>>
    /\ chars_per_frame' = IF CodeFrames(TotalFrames(d, fps)) > 0 THEN 1 ELSE HalfUnits
    /\ current_line' = 0
    /\ current_char' = 0
    /\ code_progress' = <<>>
    /\ frame_num' = 0
    /\ pc' = "loop"
    /\ UNCHANGED <<day_data, fps, video_clip, scheme, call>>

AudioDurations == {k * AudioStep : k \in 0..MaxAudio}

\* AudioFileClip(str(audio_path)) opens and reports a duration
AudioProbed ==
    /\ pc = "audio"
    /\ \E a \in AudioDurations :
          /\ audio' = [kind |-> "file", duration |-> a]
          /\ Prepare(ProbedDuration(a))

\* AudioFileClip raises: silent clip of the fallback duration
AudioFallback ==
    /\ pc = "audio"
    /\ audio' = [kind |-> "silent", duration |-> FallbackDuration]
    /\ Prepare(FallbackDuration)

\* variant: the elapsed time is that of the following frame
Frame_LateTime(phase, progress, out_progress, show) ==
    [frame_num |-> frame_num,
     t_val |-> <<frame_num + 1, fps>>,
     phase |-> phase,
     code_progress |-> progress,
     output_progress |-> out_progress,
     show_output |-> show,
     image |-> create_video_frame(code_lines, output_text, progress, out_progress, show,
                                  <<frame_num + 1, fps>>)]

\* one iteration's frame: the arguments handed to create_video_frame and
\* what it draws
Frame(phase, progress, out_progress, show) ==
    [frame_num |-> frame_num,
     t_val |-> <<frame_num, fps>>,
     phase |-> phase,
     code_progress |-> progress,
     output_progress |-> out_progress,
     show_output |-> show,
     image |-> create_video_frame(code_lines, output_text, progress, out_progress, show,
                                  <<frame_num, fps>>)]

\* lines 869-878: the per-frame advance of the typing state
Advance ==
    IF current_line < Len(code_lines)
    THEN LET line == code_lines[current_line + 1]
         IN  IF current_char \div HalfUnits <= Len(line)
             THEN LET grown == IF current_line >= Len(code_progress)
                               THEN Append(code_progress, <<>>)
                               ELSE code_progress
                  IN  [ok |-> current_line < Len(grown),
                       current_line |-> current_line,
                       current_char |-> current_char + chars_per_frame,
                       code_progress |->
                          IF current_line < Len(grown)
                          THEN [grown EXCEPT ![current_line + 1] =
                                    Typed(line, current_char)]
                          ELSE grown]
             ELSE [ok |-> TRUE,
                   current_line |-> current_line + 1,
                   current_char |-> 0,
                   code_progress |-> code_progress]
    ELSE [ok |-> TRUE,
          current_line |-> current_line,
          current_char |-> current_char,
          code_progress |-> code_progress]

\* an exception of the compositor leaves create_video after the branch has
\* updated the typing state and before frames.append
RaiseInFrame(line, char, progress) ==
    /\ pc' = "raised"
    /\ current_line' = line
    /\ current_char' = char
    /\ code_progress' = progress
    /\ UNCHANGED <<day_data, fps, audio, duration, code_lines, output_text,
                   total_frames, code_frames, output_frames, frames,
                   chars_per_frame, frame_num, video_clip, scheme, call>>

Raise ==
    /\ pc' = "raised"
    /\ UNCHANGED <<day_data, fps, audio, duration, code_lines, output_text,
                   total_frames, code_frames, output_frames, frames,
                   chars_per_frame, current_line, current_char,
                   code_progress, frame_num, video_clip, scheme, call>>

\* loop body, branch frame_num < code_frames
RenderCodeFrame ==
    /\ pc = "loop"
    /\ frame_num < total_frames
    /\ Phase(frame_num, code_frames, output_frames, output_text) = "TYPING_CODE"
    /\ IF fps = 0 \/ ~Advance.ok
       THEN Raise
       ELSE IF ~ColoursParse(scheme)
       THEN RaiseInFrame(Advance.current_line, Advance.current_char,
                         Advance.code_progress)
       ELSE /\ current_line' = Advance.current_line
            /\ current_char' = Advance.current_char
            /\ code_progress' = code_progress_after(Advance.code_progress)
            /\ frames' = Append(frames, Frame("TYPING_CODE", Advance.code_progress, 0, FALSE))
            /\ frame_num' = frame_num + 1
            /\ UNCHANGED <<pc, day_data, fps, audio, duration, code_lines,
                           output_text, total_frames, code_frames,
                           output_frames, chars_per_frame, video_clip,
                           scheme, call>>

\* loop body, branch output_text and frame_num < code_frames + output_frames
RenderOutputFrame ==
    /\ pc = "loop"
    /\ frame_num < total_frames
    /\ Phase(frame_num, code_frames, output_frames, output_text) = "TYPING_OUTPUT"
    /\ IF fps = 0 \/ output_frames = 0
       THEN Raise
       ELSE IF ~ColoursParse(scheme)
       THEN RaiseInFrame(current_line, current_char,
                         OutputSnapshot(code_lines, code_progress))
       ELSE /\ code_progress' =
                  code_progress_after(OutputSnapshot(code_lines, code_progress))
            /\ frames' = Append(frames,
                  Frame("TYPING_OUTPUT", OutputSnapshot(code_lines, code_progress),
                        OutputProgress(frame_num, code_frames, output_frames,
                                       Len(output_text.text)),
                        TRUE))
            /\ frame_num' = frame_num + 1
            /\ UNCHANGED <<pc, day_data, fps, audio, duration, code_lines,
                           output_text, total_frames, code_frames,
                           output_frames, chars_per_frame, current_line,
                           current_char, video_clip, scheme, call>>

\* loop body, else branch
RenderHoldFrame ==
    /\ pc = "loop"
    /\ frame_num < total_frames
    /\ Phase(frame_num, code_frames, output_frames, output_text) = "HOLD"
    /\ IF fps = 0
       THEN Raise
       ELSE IF ~ColoursParse(scheme)
       THEN RaiseInFrame(current_line, current_char,
                         HoldSnapshot(code_lines, code_progress))
       ELSE /\ code_progress' =
                  code_progress_after(HoldSnapshot(code_lines, code_progress))
            /\ frames' = Append(frames,
                  Frame("HOLD", HoldSnapshot(code_lines, code_progress),
                        HoldProgress(output_text), Truthy(output_text)))
            /\ frame_num' = frame_num + 1
            /\ UNCHANGED <<pc, day_data, fps, audio, duration, code_lines,
                           output_text, total_frames, code_frames,
                           output_frames, chars_per_frame, current_line,
                           current_char, video_clip, scheme, call>>

\* seq[i] with Python's negative indices; IndexError outside -len..len-1
PyIndex(seq, i) ==
    IF 0 <= i /\ i < Len(seq) THEN [ok |-> TRUE, index |-> i]
    ELSE IF i < 0 /\ 0 - Len(seq) <= i THEN [ok |-> TRUE, index |-> Len(seq) + i]
    ELSE [ok |-> FALSE, index |-> 0]

\* variant: the index is not clamped to the last frame
FrameIndex_NoClamp(t, rate, n) == (t * rate) \div HalfUnits

\* min(int(t * self.fps), len(frames) - 1), t in half seconds
FrameIndex(t, rate, n) == Min((t * rate) \div HalfUnits, n - 1)

\* make_frame(t)
make_frame(t) ==
    LET at == PyIndex(frames, FrameIndex(t, fps, Len(frames)))
    IN  IF at.ok
        THEN [ok |-> TRUE, index |-> at.index, frame |-> frames[at.index + 1]]
        ELSE [ok |-> FALSE, index |-> 0, frame |-> <<>>]

\* lines 896-902: the loop is exhausted, the clip is built and returned.
\* VideoClip(make_frame, ...) evaluates make_frame(0) for the frame size, so
\* an empty frame sequence raises IndexError there.
ReturnClip ==
    /\ pc = "loop"
    /\ frame_num = total_frames
    /\ IF ~make_frame(0).ok
       THEN Raise
       ELSE /\ video_clip' = [made |-> TRUE, duration |-> duration,
                              audio |-> audio, nframes |-> Len(frames)]
            /\ pc' = "done"
            /\ UNCHANGED <<day_data, fps, audio, duration, code_lines,
                           output_text, total_frames, code_frames,
                           output_frames, frames, chars_per_frame,
                           current_line, current_char, code_progress,
                           frame_num, scheme, call>>

\* the encoder samples the returned clip at playback time t
MakeFrame ==
    /\ pc = "done"
    /\ \E t \in 0..MaxSample :
          call' = [fn |-> "make_frame", args |-> t, result |-> make_frame(t)]
    /\ UNCHANGED <<pc, day_data, fps, audio, duration, code_lines, output_text,
                   total_frames, code_frames, output_frames, frames,
                   chars_per_frame, current_line, current_char,
                   code_progress, frame_num, video_clip, scheme>>

Next ==
    \/ AudioProbed
    \/ AudioFallback
    \/ RenderCodeFrame
    \/ RenderOutputFrame
    \/ RenderHoldFrame
    \/ ReturnClip
    \/ MakeFrame

Spec == Init /\ [][Next]_vars

(***************************************************************************)
(* create_video with schemes and frame rates that may be invalid.          *)
(***************************************************************************)
InitScheme ==
    /\ day_data \in SchemeData
    /\ fps \in SchemeFps
    /\ scheme \in Schemes
    /\ pc = "audio"
    /\ call = NoCall
    /\ Unassigned

SpecScheme == InitScheme /\ [][Next]_vars

(***************************************************************************)
(* hex_to_rgb applied on its own to one colour string.                     *)
(***************************************************************************)
InitHex ==
    /\ \E h \in HexInputs :
          call = [fn |-> "hex_to_rgb", args |-> h, result |-> <<>>]
    /\ pc = "call"
    /\ day_data = [code |-> <<>>, output |-> None]
    /\ fps = DefaultFps
    /\ scheme = RandomScheme
    /\ Unassigned

CallHexToRgb ==
    /\ pc = "call"
    /\ call.fn = "hex_to_rgb"
    /\ call' = [call EXCEPT !.result = hex_to_rgb(call.args)]
    /\ pc' = "returned"
    /\ UNCHANGED <<day_data, fps, audio, duration, code_lines, output_text,
                   total_frames, code_frames, output_frames, frames,
                   chars_per_frame, current_line, current_char,
                   code_progress, frame_num, video_clip, scheme>>

NextHex == CallHexToRgb

SpecHex == InitHex /\ [][NextHex]_vars

(***************************************************************************)
(* get_text_chunks applied on its own to one line.                         *)
(***************************************************************************)
InitChunks ==
    /\ \E a \in ChunkInputs :
          call = [fn |-> "get_text_chunks", args |-> a, result |-> <<>>]
    /\ pc = "call"
    /\ day_data = [code |-> <<>>, output |-> None]
    /\ fps = DefaultFps
    /\ scheme = RandomScheme
    /\ Unassigned

CallGetTextChunks ==
    /\ pc = "call"
    /\ call.fn = "get_text_chunks"
    /\ call' = [call EXCEPT !.result =
                   get_text_chunks(call.args.text, call.args.language,
                                   call.args.has_pygments, call.args.lex_raises)]
    /\ pc' = "returned"
    /\ UNCHANGED <<day_data, fps, audio, duration, code_lines, output_text,
                   total_frames, code_frames, output_frames, frames,
                   chars_per_frame, current_line, current_char,
                   code_progress, frame_num, video_clip, scheme>>

NextChunks == CallGetTextChunks

SpecChunks == InitChunks /\ [][NextChunks]_vars

(***************************************************************************)
(* generate_youtube_metadata applied to one answer of the model.           *)
(***************************************************************************)
InitMeta ==
    /\ \E t \in AiTitles, h \in BOOLEAN :
          call = [fn |-> "generate_youtube_metadata",
                  args |-> [has_ai |-> h, ai_title |-> t], result |-> <<>>]
    /\ pc = "call"
    /\ day_data = [code |-> <<>>, output |-> None]
    /\ fps = DefaultFps
    /\ scheme = RandomScheme
    /\ Unassigned

CallGenerateMetadata ==
    /\ pc = "call"
    /\ call.fn = "generate_youtube_metadata"
    /\ call' = [call EXCEPT !.result =
                   generate_youtube_metadata(call.args.has_ai, call.args.ai_title)]
    /\ pc' = "returned"
    /\ UNCHANGED <<day_data, fps, audio, duration, code_lines, output_text,
                   total_frames, code_frames, output_frames, frames,
                   chars_per_frame, current_line, current_char,
                   code_progress, frame_num, video_clip, scheme>>

NextMeta == CallGenerateMetadata

SpecMeta == InitMeta /\ [][NextMeta]_vars

(***************************************************************************)
(* text_to_speech_elevenlabs applied to one text.                          *)
(***************************************************************************)
InitTts ==
    /\ \E a \in TtsInputs :
          call = [fn |-> "text_to_speech_elevenlabs", args |-> a, result |-> <<>>]
    /\ pc = "call"
    /\ day_data = [code |-> <<>>, output |-> None]
    /\ fps = DefaultFps
    /\ scheme = RandomScheme
    /\ Unassigned

CallTextToSpeech ==
    /\ pc = "call"
    /\ call.fn = "text_to_speech_elevenlabs"
    /\ call' = [call EXCEPT !.result =
                   text_to_speech_elevenlabs(call.args.text_len, call.args.answers,
                                             call.args.post, call.args.gtts)]
    /\ pc' = "returned"
    /\ UNCHANGED <<day_data, fps, audio, duration, code_lines, output_text,
                   total_frames, code_frames, output_frames, frames,
                   chars_per_frame, current_line, current_char,
                   code_progress, frame_num, video_clip, scheme>>

NextTts == CallTextToSpeech

SpecTts == InitTts /\ [][NextTts]_vars

(***************************************************************************)
(* save_content, step by step: each step may succeed, raise, or be the     *)
(* point where the process stops.                                          *)
(***************************************************************************)
InitSave ==
    /\ \E d \in SaveData, o \in SaveData :
          call = [fn |-> "save_content",
                  args |-> [data |-> d, old |-> Dumps(o)],
                  result |-> [file |-> Dumps(o), temp_exists |-> FALSE,
                              temp |-> <<>>, temp_file |-> "None"]]
    /\ pc = "save_open"
    /\ day_data = [code |-> <<>>, output |-> None]
    /\ fps = DefaultFps
    /\ scheme = RandomScheme
    /\ Unassigned

SaveStep(next_pc, st) ==
    /\ pc' = next_pc
    /\ call' = [call EXCEPT !.result = st]
    /\ UNCHANGED <<day_data, fps, audio, duration, code_lines, output_text,
                   total_frames, code_frames, output_frames, frames,
                   chars_per_frame, current_line, current_char,
                   code_progress, frame_num, video_clip, scheme>>

\* line 177: tempfile.NamedTemporaryFile(mode='w', delete=False, dir=dir_name)
SaveOpen ==
    /\ pc = "save_open"
    /\ \/ SaveStep("save_dump", [call.result EXCEPT !.temp_exists = TRUE])
       \/ SaveStep("raised", SaveHandler(call.result))

\* line 178: json.dump writes the next chunk, or the write fails; the with
\* block then closes the file and the exception reaches the except block
SaveDump ==
    /\ pc = "save_dump"
    /\ Len(call.result.temp) < Len(Dumps(call.args.data))
    /\ \/ SaveStep("save_dump",
                   [call.result EXCEPT !.temp =
                       Append(@, Dumps(call.args.data)[Len(@) + 1])])
       \/ SaveStep("raised", SaveHandler(call.result))

\* line 179: temp_file = tmp.name, after the dump is complete
SaveAssign ==
    /\ pc = "save_dump"
    /\ Len(call.result.temp) = Len(Dumps(call.args.data))
    /\ SaveStep("save_close", [call.result EXCEPT !.temp_file = "name"])

\* the end of the with block: the file is flushed and closed
SaveClose ==
    /\ pc = "save_close"
    /\ \/ SaveStep("save_move", call.result)
       \/ SaveStep("raised", SaveHandler(call.result))

\* line 182: shutil.move(temp_file, json_path), a rename within one
\* directory
SaveMove ==
    /\ pc = "save_move"
    /\ \/ SaveStep("returned",
                   [call.result EXCEPT !.file = call.result.temp,
                                       !.temp_exists = FALSE])
       \/ SaveStep("raised", SaveHandler(call.result))

\* the process stops between two steps
SaveStop ==
    /\ pc \in {"save_open", "save_dump", "save_close", "save_move"}
    /\ SaveStep("stopped", call.result)

NextSave ==
    \/ SaveOpen
    \/ SaveDump
    \/ SaveAssign
    \/ SaveClose
    \/ SaveMove
    \/ SaveStop

SpecSave == InitSave /\ [][NextSave]_vars

(***************************************************************************)
(* run_daily_automation, run after run on one content file.  call.result   *)
(* holds the file, the file as it was when the run started, the loaded     *)
(* data, the selected day, the answer of upload_to_youtube, whether the    *)
(* repair and the update saved the file, and the previous run.             *)
(***************************************************************************)
NoRun == [day |-> 0, upload |-> "none", pc |-> "none"]

RunStart(file, run, prev) ==
    [file |-> file, start |-> file, data |-> <<>>, day |-> 0,
     upload |-> "none", repaired |-> FALSE, saved |-> FALSE,
     skipped |-> FALSE, run |-> run, prev |-> prev]

InitDaily ==
    /\ \E file \in ContentFiles :
          call = [fn |-> "run_daily_automation", args |-> <<>>,
                  result |-> RunStart(file, 1, NoRun)]
    /\ pc = "daily_load"
    /\ day_data = [code |-> <<>>, output |-> None]
    /\ fps = DefaultFps
    /\ scheme = RandomScheme
    /\ Unassigned

DailyStep(next_pc, st) ==
    /\ pc' = next_pc
    /\ call' = [call EXCEPT !.result = st]
    /\ UNCHANGED <<day_data, fps, audio, duration, code_lines, output_text,
                   total_frames, code_frames, output_frames, frames,
                   chars_per_frame, current_line, current_char,
                   code_progress, frame_num, video_clip, scheme>>

\* line 1025: load_content, with repair_json when json.load raises
\* JSONDecodeError; the save of the repaired data replaces the file or raises
DailyLoad ==
    /\ pc = "daily_load"
    /\ LET st == call.result
           whole == json_load(st.file)
           first == raw_decode(st.file)
       IN  IF whole.ok
           THEN DailyStep("daily_select", [st EXCEPT !.data = whole.data])
           ELSE IF first.ok
           THEN \/ DailyStep("daily_select",
                             [st EXCEPT !.data = first.data,
                                        !.file = Dumps(first.data),
                                        !.repaired = TRUE])
                \/ DailyStep("raised", st)
           ELSE DailyStep("raised", st)

\* lines 1026-1034: get_next_pending_day, the return when there is none and
\* the launch guard
DailySelect ==
    /\ pc = "daily_select"
    /\ LET st == call.result
           day == get_next_pending_day(st.data)
       IN  IF day = 0
           THEN DailyStep("returned", st)
           ELSE \E today \in Dates :
                   IF today = LaunchGuardDate
                   THEN DailyStep("returned", [st EXCEPT !.skipped = TRUE])
                   ELSE DailyStep("daily_produce", [st EXCEPT !.day = day])

\* lines 1036-1067: theme, script, audio, video and metadata are produced,
\* or one of them raises
DailyProduce ==
    /\ pc = "daily_produce"
    /\ \/ DailyStep("daily_upload", call.result)
       \/ DailyStep("raised", call.result)

\* lines 1069-1077: upload_to_youtube answers True or False; on True the
\* status of the day is set and save_content replaces the file or raises
DailyUpload ==
    /\ pc = "daily_upload"
    /\ LET st == call.result
           updated == [st.data EXCEPT ![st.day] = "uploaded"]
       IN  \/ DailyStep("returned",
                        [st EXCEPT !.upload = "True", !.data = updated,
                                   !.file = Dumps(updated), !.saved = TRUE])
           \/ DailyStep("raised",
                        [st EXCEPT !.upload = "True", !.data = updated])
           \/ DailyStep("raised", [st EXCEPT !.upload = "False"])

\* line 1081: the next invocation of the script on the same file
DailyNextRun ==
    /\ pc \in {"returned", "raised"}
    /\ call.result.run < MaxRuns
    /\ DailyStep("daily_load",
                 RunStart(call.result.file, call.result.run + 1,
                          [day |-> call.result.day,
                           upload |-> call.result.upload, pc |-> pc]))

NextDaily ==
    \/ DailyLoad
    \/ DailySelect
    \/ DailyProduce
    \/ DailyUpload
    \/ DailyNextRun

SpecDaily == InitDaily /\ [][NextDaily]_vars

(***************************************************************************)
(* The title card of create_video_frame for one title.                     *)
(***************************************************************************)
InitTitle ==
    /\ \E a \in TitleInputs :
          call = [fn |-> "title_lines", args |-> a, result |-> <<>>]
    /\ pc = "call"
    /\ day_data = [code |-> <<>>, output |-> None]
    /\ fps = DefaultFps
    /\ scheme = RandomScheme
    /\ Unassigned

CallTitleLines ==
    /\ pc = "call"
    /\ call.fn = "title_lines"
    /\ call' = [call EXCEPT !.result =
                   title_lines(call.args.day, call.args.title, call.args.font)]
    /\ pc' = "returned"
    /\ UNCHANGED <<day_data, fps, audio, duration, code_lines, output_text,
                   total_frames, code_frames, output_frames, frames,
                   chars_per_frame, current_line, current_char,
                   code_progress, frame_num, video_clip, scheme>>

NextTitle == CallTitleLines

SpecTitle == InitTitle /\ [][NextTitle]_vars

(***************************************************************************)
(* Properties.  frames holds every frame rendered so far, so each state of *)
(* a run is a prefix of its frame sequence: a property of "every later     *)
(* frame" is stated for the newest frame against all earlier ones.         *)
(***************************************************************************)
Last == Len(frames)
Rendered == 1..Len(frames)
Complete(f, i) ==
    /\ i <= Len(frames[f].code_progress)
    /\ frames[f].code_progress[i] = code_lines[i]

\* C1: in every frame, each entry of the snapshot is a prefix of its code
\* line, and a line that was complete in some frame is complete in every
\* later frame of the run.
C1_PrefixAndSticky ==
    Last > 0 =>
        LET cp == frames[Last].code_progress
        IN  /\ Len(cp) <= Len(code_lines)
            /\ \A i \in 1..Len(cp) :
                  /\ IsPrefix(cp[i], code_lines[i])
                  /\ Len(cp[i]) <= Len(code_lines[i])
            /\ \A f \in 1..(Last - 1) :
                  \A i \in 1..Len(frames[f].code_progress) :
                     Complete(f, i) => Complete(Last, i)

\* a non-empty first line shown partly, then complete while typing goes on,
\* and still complete after the phase boundary
C1_Witness ==
    /\ Last > 2
    /\ frames[Last].phase = "HOLD"
    /\ Len(code_lines[1]) > 1
    /\ \E f \in Rendered, g \in Rendered :
          /\ f < g
          /\ frames[g].phase = "TYPING_CODE"
          /\ frames[f].code_progress[1] # code_lines[1]
          /\ frames[f].code_progress[1] # <<>>
          /\ Complete(g, 1)
          /\ Len(frames[g].code_progress) > 1

\* C2: the scroll offset of the compositor never decreases from one frame
\* of a run to a later one, phase boundaries included.
C2_ScrollMonotone ==
    \A f \in Rendered :
        frames[f].image.scroll_offset <= frames[Last].image.scroll_offset

\* the offset grows inside the code phase and jumps at the boundary to the
\* output phase
C2_Witness ==
    \E f \in Rendered, g \in Rendered :
        /\ g + 1 \in Rendered
        /\ frames[f].phase = "TYPING_CODE"
        /\ frames[g].phase = "TYPING_CODE"
        /\ frames[f].image.scroll_offset < frames[g].image.scroll_offset
        /\ frames[g + 1].phase # "TYPING_CODE"
        /\ frames[g].image.scroll_offset < frames[g + 1].image.scroll_offset

\* C3: every frame rendered at or after frame code_frames is given the
\* complete code_lines as its snapshot.
C3_FullAfterCodePhase ==
    \A f \in Rendered :
        frames[f].frame_num >= code_frames =>
            frames[f].code_progress = code_lines

\* typing had not finished when the code phase ended
C3_Witness ==
    \E f \in Rendered :
        /\ f + 1 \in Rendered
        /\ frames[f].phase = "TYPING_CODE"
        /\ frames[f].code_progress # code_lines
        /\ frames[f + 1].phase = "TYPING_OUTPUT"
        /\ frames[Last].phase = "HOLD"

\* C4 (as stated): with non-empty output, output_progress never decreases
\* and equals len(output_text) at the last frame of the output phase.
C4_FullAtLastOutputFrame ==
    Truthy(output_text) =>
        /\ \A f \in Rendered :
              frames[f].output_progress <= frames[Last].output_progress
        /\ \A f \in Rendered :
              (/\ frames[f].phase = "TYPING_OUTPUT"
               /\ frames[f].frame_num = code_frames + output_frames - 1)
              => frames[f].output_progress = Len(output_text.text)

\* C4 (amended): with non-empty output, output_progress never decreases,
\* stays below len(output_text) in every frame of the output phase, its
\* last frame included, and equals len(output_text) in every HOLD frame,
\* the first of which is frame code_frames + output_frames.
C4_FullAtFirstHoldFrame ==
    Truthy(output_text) =>
        /\ \A f \in Rendered :
              frames[f].output_progress <= frames[Last].output_progress
        /\ \A f \in Rendered :
              /\ frames[f].phase = "TYPING_CODE"
                    => frames[f].output_progress = 0
              /\ frames[f].phase = "TYPING_OUTPUT"
                    => /\ frames[f].output_progress >= 0
                       /\ frames[f].output_progress < Len(output_text.text)
              /\ frames[f].phase = "HOLD"
                    => frames[f].output_progress = Len(output_text.text)
              /\ frames[f].frame_num = code_frames + output_frames
                    => frames[f].phase = "HOLD"

\* the last frame of the output phase shows part of the text and the first
\* HOLD frame follows it
C4_Witness ==
    /\ Truthy(output_text)
    /\ \E f \in Rendered :
          /\ f + 1 \in Rendered
          /\ frames[f].phase = "TYPING_OUTPUT"
          /\ frames[f].frame_num = code_frames + output_frames - 1
          /\ frames[f].output_progress > 0
          /\ frames[f + 1].phase = "HOLD"

\* C5: in every frame the compositor uses offset = max(0, active - 11) and
\* the slice code_lines[offset : offset + 14], and the line being typed is
\* inside that window: 0 <= offset <= active < offset + 14 and
\* active < len(code_lines); with 20 lines and active = 16 the offset is 5
\* and the slice is lines[5:19].
C5_ActiveLineVisible ==
    \A f \in Rendered :
        LET active == Len(frames[f].code_progress) - 1
            img == frames[f].image
            offset == img.scroll_offset
        IN  /\ img.active_line_idx = active
            /\ offset = (IF active - 11 > 0 THEN active - 11 ELSE 0)
            /\ img.visible_lines =
                  [i \in 1..((IF offset + 14 < Len(code_lines)
                              THEN offset + 14 ELSE Len(code_lines)) - offset)
                      |-> code_lines[offset + i]]
            /\ 0 <= offset
            /\ offset <= active
            /\ active < offset + 14
            /\ active < Len(code_lines)
            /\ (Len(code_lines) = 20 /\ active = 16)
                  => /\ offset = 5
                     /\ img.visible_lines = SubSeq(code_lines, 6, 19)

\* the frame of the 20-line block in which line 16 is being typed
C5_Witness ==
    \E f \in Rendered :
        /\ Len(code_lines) = 20
        /\ frames[f].phase = "TYPING_CODE"
        /\ Len(frames[f].code_progress) - 1 = 16
        /\ frames[f].image.scroll_offset = 5

Rank(phase) ==
    IF phase = "TYPING_CODE" THEN 0
    ELSE IF phase = "TYPING_OUTPUT" THEN 1
    ELSE 2

\* C6: along the frames of a run the phase goes TYPING_CODE, TYPING_OUTPUT,
\* HOLD and never back, HOLD is terminal, and a run without output (None or
\* the empty string) has no TYPING_OUTPUT frame and no frame with an output
\* box: it goes from TYPING_CODE directly to HOLD.
C6_PhaseOrder ==
    /\ \A f \in Rendered :
          /\ frames[f].phase \in {"TYPING_CODE", "TYPING_OUTPUT", "HOLD"}
          /\ Rank(frames[f].phase) <= Rank(frames[Last].phase)
          /\ frames[f].phase = "HOLD" => frames[Last].phase = "HOLD"
    /\ ~Truthy(output_text) =>
          \A f \in Rendered :
              /\ frames[f].phase # "TYPING_OUTPUT"
              /\ ~frames[f].image.output_box
              /\ ~frames[f].show_output

\* a finished run whose output is the empty string: code frames, then HOLD
C6_Witness ==
    /\ pc = "done"
    /\ output_text = Str(<<>>)
    /\ frames[1].phase = "TYPING_CODE"
    /\ frames[Last].phase = "HOLD"
    /\ \E f \in Rendered :
          /\ frames[f].phase = "TYPING_CODE"
          /\ frames[f].code_progress # code_lines
          /\ frames[f + 1].phase = "HOLD"

FramesIn(phase) == Cardinality({f \in Rendered : frames[f].phase = phase})

\* C7: with output, the N frames of a run are split into consecutive phases
\* of floor(0.6 N) code frames, floor(0.3 N) output frames and the
\* remaining hold frames, which sum to N; N = 300 gives 180 / 90 / 30.
C7_PhaseSplit ==
    Truthy(output_text) =>
        LET N == total_frames
            cf == (6 * N) \div 10
            of == (3 * N) \div 10
        IN  /\ \A f \in Rendered :
                  frames[f].phase =
                     (IF f - 1 < cf THEN "TYPING_CODE"
                      ELSE IF f - 1 < cf + of THEN "TYPING_OUTPUT"
                      ELSE "HOLD")
            /\ pc = "done" =>
                  /\ FramesIn("TYPING_CODE") = cf
                  /\ FramesIn("TYPING_OUTPUT") = of
                  /\ FramesIn("HOLD") = N - cf - of
                  /\ FramesIn("TYPING_CODE") + FramesIn("TYPING_OUTPUT")
                        + FramesIn("HOLD") = N
                  /\ N = 300 =>
                        /\ FramesIn("TYPING_CODE") = 180
                        /\ FramesIn("TYPING_OUTPUT") = 90
                        /\ FramesIn("HOLD") = 30

\* the finished 300-frame run of the hello-world record
C7_Witness ==
    /\ pc = "done"
    /\ Truthy(output_text)
    /\ total_frames = 300
    /\ Len(frames) = 300

\* C8 (as stated): without output every frame of the run is rendered by the
\* TYPING_CODE advance rule; no frame is forced to the fully-typed state.
C8_TypingSpansRun ==
    (pc # "audio" /\ ~Truthy(output_text)) =>
        \A f \in Rendered : frames[f].phase = "TYPING_CODE"

\* C8 (amended): without output the typing phase spans the first
\* floor(0.6 N) frames only; every later frame, and there is at least one,
\* is a HOLD frame given the complete code_lines.
C8_TypingSpansSixTenths ==
    (pc # "audio" /\ ~Truthy(output_text)) =>
        LET N == total_frames
            cf == (6 * N) \div 10
        IN  /\ \A f \in Rendered :
                  /\ f - 1 < cf => frames[f].phase = "TYPING_CODE"
                  /\ f - 1 >= cf =>
                        /\ frames[f].phase = "HOLD"
                        /\ frames[f].code_progress = code_lines
            /\ pc = "done" =>
                  /\ FramesIn("TYPING_CODE") = cf
                  /\ FramesIn("HOLD") = N - cf
                  /\ FramesIn("HOLD") >= 1

\* a finished run without output in which the first HOLD frame completes
\* lines that typing had not finished
C8_Witness ==
    /\ pc = "done"
    /\ output_text = None
    /\ \E f \in Rendered :
          /\ f + 1 \in Rendered
          /\ frames[f].phase = "TYPING_CODE"
          /\ frames[f].code_progress # code_lines
          /\ frames[f + 1].phase = "HOLD"

\* C9: for code = "" the run has the single line "", raises no error,
\* renders exactly total_frames frames and ends in HOLD with the snapshot
\* [""], with or without output.
C9_EmptyCode ==
    day_data.code = <<>> =>
        /\ pc # "raised"
        /\ pc # "audio" => code_lines = << <<>> >>
        /\ Len(frames) <= total_frames
        /\ pc = "done" =>
              /\ Len(frames) = total_frames
              /\ total_frames = TotalFrames(duration, fps)
              /\ video_clip.made /\ video_clip.nframes = total_frames
              /\ Last >= 1
              /\ frames[Last].phase = "HOLD"
              /\ frames[Last].code_progress = << <<>> >>

\* a finished run of the empty code with output
C9_Witness ==
    /\ day_data.code = <<>>
    /\ Truthy(day_data.output)
    /\ pc = "done"
    /\ video_clip.made
    /\ Len(frames) > 1

\* C10: when the audio cannot be opened the run does not raise, takes the
\* fallback duration of 10 s with a silent track, renders int(10 * fps)
\* frames and returns a clip; when the probe succeeds the duration is the
\* measured duration plus 1.5 s.
C10_AudioFallback ==
    /\ pc # "raised"
    /\ audio.kind = "silent" =>
          /\ duration = 10 * Ticks
          /\ audio.duration = 10 * Ticks
          /\ total_frames = 10 * fps
          /\ pc = "done" =>
                /\ video_clip.made
                /\ video_clip.audio.kind = "silent"
                /\ video_clip.duration = 10 * Ticks
                /\ video_clip.nframes = 10 * fps
                /\ Len(frames) = 10 * fps
    /\ audio.kind = "file" =>
          /\ duration = audio.duration + (3 * Ticks) \div 2   \* 1.5 s
          /\ pc = "done" =>
                /\ video_clip.made
                /\ video_clip.audio.kind = "file"

\* a clip returned after the audio could not be opened
C10_Witness ==
    /\ pc = "done"
    /\ audio.kind = "silent"
    /\ video_clip.made
    /\ video_clip.nframes > 0

Returned(fn) == pc = "returned" /\ call.fn = fn

\* exactly six hexadecimal digits after one leading '#' is removed
SixHexDigits(h) ==
    LET b == IF Len(h) > 0 /\ h[1] = "#" THEN Tail(h) ELSE h
    IN  Len(b) = 6 /\ \A i \in 1..6 : IsHexDigit(b[i])

\* C11: hex_to_rgb fails for every string that is not exactly six
\* hexadecimal digits after a leading '#' is stripped; it returns no colour
\* for a malformed string.
C11_MalformedRejected ==
    (Returned("hex_to_rgb") /\ ~SixHexDigits(call.args)) => ~call.result.ok

PairVal(h, i) == 16 * HexVal(h[i]) + HexVal(h[i + 1])

\* C12: for six hexadecimal digits h, hex_to_rgb(h) and hex_to_rgb('#' + h)
\* return the same triple, the values 0..255 of the three digit pairs of h;
\* "#00ff41" and "00ff41" both give (0, 255, 65).
C12_SixDigitsParsed ==
    (Returned("hex_to_rgb") /\ SixHexDigits(call.args)) =>
        LET h == IF call.args[1] = "#" THEN Tail(call.args) ELSE call.args
        IN  /\ call.result.ok
            /\ call.result.rgb = <<PairVal(h, 1), PairVal(h, 3), PairVal(h, 5)>>
            /\ \A i \in 1..3 : call.result.rgb[i] \in 0..255
            /\ hex_to_rgb(h) = call.result
            /\ hex_to_rgb(<<"#">> \o h) = call.result
            /\ h = <<"0","0","f","f","4","1">> => call.result.rgb = <<0, 255, 65>>

\* the call hex_to_rgb("#00ff41") has returned (0, 255, 65)
C12_Witness ==
    /\ Returned("hex_to_rgb")
    /\ call.args = <<"#","0","0","f","f","4","1">>
    /\ call.result.ok
    /\ call.result.rgb = <<0, 255, 65>>

Malformed(sch) == \E k \in SchemeKeys : ~SixHexDigits(sch[k])

\* C13: if a colour string of the scheme is malformed or fps is 0,
\* create_video fails before any frame is appended and returns no clip.
C13_BadInputAborts ==
    (Malformed(scheme) \/ fps = 0) =>
        /\ frames = <<>>
        /\ pc # "done"
        /\ ~video_clip.made

\* C16: for every playback time t >= 0, make_frame(t) returns
\* frames[min(floor(t * fps), len(frames) - 1)], a valid index; at or past
\* the end it is the last frame, and no index error is raised.
C16_SampleClamped ==
    (pc = "done" /\ call.fn = "make_frame") =>
        LET t == call.args
            n == Len(frames)
            want == IF (t * fps) \div 2 < n - 1 THEN (t * fps) \div 2 ELSE n - 1
        IN  /\ call.result.ok
            /\ call.result.index = want
            /\ call.result.index \in 0..(n - 1)
            /\ call.result.frame = frames[want + 1]
            /\ call.result.frame.frame_num = want
            /\ t * fps >= 2 * n => call.result.frame = frames[n]

\* a sample past the end of the clip and after its first frame
C16_Witness ==
    /\ pc = "done"
    /\ call.fn = "make_frame"
    /\ call.args * fps > 2 * Len(frames)
    /\ Len(frames) > 1
    /\ call.result.ok
    /\ call.result.index = Len(frames) - 1

RECURSIVE Concat(_)
Concat(chunks) ==
    IF Len(chunks) = 0 THEN <<>> ELSE Head(chunks).text \o Concat(Tail(chunks))

\* C14: for every line and language tag the segments returned by
\* get_text_chunks, concatenated in order, equal the input line, on the
\* lexer path and on the fallback path; the empty line yields no segment.
C14_ChunksRoundTrip ==
    Returned("get_text_chunks") =>
        /\ Concat(call.result) = call.args.text
        /\ call.args.text = <<>> => call.result = <<>>

\* C17 (as stated): the number of frames rendered is total_duration * fps
\* rounded to the nearest integer.
C17_FramesRounded ==
    pc = "done" =>
        LET N == Len(frames)
            d == Ticks * N - duration * fps
        IN  2 * (IF d < 0 THEN 0 - d ELSE d) <= Ticks

\* C17 (amended): the number of frames rendered is total_duration * fps
\* truncated to an integer, the largest N with N <= total_duration * fps.
C17_FramesTruncated ==
    pc = "done" =>
        /\ Len(frames) = total_frames
        /\ Ticks * Len(frames) <= duration * fps
        /\ duration * fps < Ticks * (Len(frames) + 1)

\* a finished run whose product has a fraction above one half
C17_Witness ==
    /\ pc = "done"
    /\ 2 * ((duration * fps) % Ticks) > Ticks
    /\ Len(frames) = (duration * fps) \div Ticks

\* the arguments recorded for frame f are those of the loop iteration f - 1
InOrder(f) ==
    /\ frames[f].frame_num = f - 1
    /\ frames[f].t_val = <<f - 1, fps>>
    /\ frames[f].image =
          create_video_frame(code_lines, output_text, frames[f].code_progress,
                             frames[f].output_progress, frames[f].show_output,
                             <<f - 1, fps>>)
    /\ Len(frames[f].image.visible_lines) > 0

\* one iteration: frames grows by exactly one frame, numbered frame_num
OneAppended ==
    /\ Len(frames') = Len(frames) + 1
    /\ SubSeq(frames', 1, Len(frames)) = frames
    /\ frames'[Len(frames')].frame_num = frame_num
    /\ frame_num' = frame_num + 1

\* C18: in a run that does not raise, each loop iteration appends one frame,
\* in increasing frame_number order; frames[i] is the frame rendered for
\* frame_number i at elapsed time i / fps; after the loop
\* len(frames) = total_frames.
C18_FramesInOrder ==
    /\ [](pc \in {"loop", "done"} =>
             /\ \A f \in Rendered : InOrder(f)
             /\ pc = "loop" => Len(frames) = frame_num
             /\ pc = "done" => Len(frames) = total_frames)
    /\ [][(pc = "loop" /\ pc' = "loop") => OneAppended]_vars
    /\ [][(pc = "loop" /\ pc' = "done") => frames' = frames]_vars

\* a returned clip of several frames
C18_Witness ==
    /\ pc = "done"
    /\ Len(frames) = total_frames
    /\ Len(frames) >= 10
    /\ frames[Last].t_val = <<total_frames - 1, fps>>

\* C19 (as stated): in every frame whose output_progress is above 0,
\* current_line = len(code_lines): typing had completed.
C19_OutputAfterTerminal ==
    \A f \in Rendered :
        frames[f].output_progress > 0 => current_line = Len(code_lines)

\* C19 (amended): every frame whose output_progress is above 0 has
\* frame_number >= code_frames, shows the output and is handed the complete
\* code; current_line may still be below len(code_lines) in such a frame.
C19_OutputAfterCodePhase ==
    \A f \in Rendered :
        frames[f].output_progress > 0 =>
            /\ frames[f].frame_num >= code_frames
            /\ frames[f].show_output
            /\ frames[f].code_progress = code_lines
            /\ current_line <= Len(code_lines)

\* output is being revealed although typing stopped before the last line
C19_Witness ==
    /\ Last > 0
    /\ frames[Last].output_progress > 0
    /\ current_line < Len(code_lines)
    /\ frames[Last].code_progress = code_lines

\* typing has reached its terminal state
Terminal == current_line = Len(code_lines)

\* C20: the switch away from TYPING_CODE happens exactly at frame
\* code_frames; when typing is terminal before that frame, each remaining
\* code-phase frame is rendered with code_progress = code_lines and the
\* output hidden, and leaves current_line, current_char and code_progress
\* unchanged.
C20_SwitchAtCodeFrames ==
    /\ [](\A f \in Rendered :
             /\ frames[f].frame_num < code_frames <=>
                   frames[f].phase = "TYPING_CODE"
             /\ frames[f].frame_num < code_frames =>
                   ~frames[f].show_output /\ frames[f].output_progress = 0)
    /\ [][(pc = "loop" /\ Terminal /\ frame_num < code_frames) =>
             /\ pc' = "loop"
             /\ OneAppended
             /\ frames'[Len(frames')].phase = "TYPING_CODE"
             /\ frames'[Len(frames')].code_progress = code_lines
             /\ ~frames'[Len(frames')].show_output
             /\ UNCHANGED <<current_line, current_char, code_progress>>]_vars

\* the last four frames are code-phase frames with the complete code: the
\* two that write the full last line, the one that leaves it, and one
\* rendered in the terminal state
C20_Witness ==
    /\ Terminal
    /\ Last >= 4
    /\ \A f \in (Last - 3)..Last :
          /\ frames[f].phase = "TYPING_CODE"
          /\ frames[f].code_progress = code_lines
    /\ frame_num < code_frames

Clamp(n, lo, hi) == IF n < lo THEN lo ELSE IF n > hi THEN hi ELSE n

\* C21: for a fixed output_text the output box height is
\* 40 + 40 * clamp(n, 3, 8) + 25, n the wrapped-line count of the complete
\* output text, and it is the same for every output_progress in
\* 0..len(output_text).
C21_BoxHeightFixed ==
    \A f \in Rendered :
        frames[f].image.output_box =>
            LET n == Len(WrapFrom(output_text.text, 1, <<>>))
                h == frames[f].image.output_box_height
            IN  /\ h = 40 + 40 * Clamp(n, 3, 8) + 25
                /\ \A p \in 0..Len(output_text.text) :
                      create_video_frame(code_lines, output_text,
                                         frames[f].code_progress, p, TRUE,
                                         frames[f].t_val).output_box_height = h
                /\ \A g \in Rendered :
                      frames[g].image.output_box =>
                          frames[g].image.output_box_height = h

\* two frames of one run reveal different numbers of wrapped lines of an
\* output of more than eight lines
C21_Witness ==
    \E f, g \in Rendered :
        /\ frames[f].image.output_box
        /\ frames[g].image.output_box
        /\ frames[f].image.num_lines > 8
        /\ Len(frames[f].image.visible_out) < Len(frames[g].image.visible_out)
        /\ frames[f].image.output_box_height = frames[g].image.output_box_height

\* C22: for every title the model returns, the title of the returned
\* metadata contains "#shorts" and "#viral" (case-insensitively), also after
\* sanitising and truncating to 100 characters.
C22_TitleKeepsTags ==
    (Returned("generate_youtube_metadata") /\ ~call.result.isNone) =>
        /\ Contains(ShortsTag, Lower(call.result.title))
        /\ Contains(ViralTag, Lower(call.result.title))

\* the remaining quota of key k (from 0) covers the text
Sufficient(k) ==
    LET a == call.args.answers[k + 1]
    IN  /\ a.status = "200"
        /\ a.character_limit - a.character_count > call.args.text_len + 50

\* C23: gTTS is attempted in every case where ElevenLabs produced no audio
\* (no key, no key with remaining quota above len(text) + 50, a non-200
\* answer or an exception); the result is True exactly when one of the two
\* services wrote the file; the key used is the lowest-index key whose
\* remaining quota exceeds len(text) + 50.
C23_FallbackAndKeyChoice ==
    Returned("text_to_speech_elevenlabs") =>
        LET r == call.result
            keys == 0..(Len(call.args.answers) - 1)
        IN  /\ r.gtts_tried <=> ~r.eleven_wrote
            /\ r.returned <=> (r.eleven_wrote \/ r.gtts_wrote)
            /\ ~r.returned => (~r.eleven_wrote /\ r.gtts_tried /\ ~r.gtts_wrote)
            /\ r.eleven_wrote =>
                  (r.requested /\ call.args.post = "200" /\ ~r.gtts_wrote)
            /\ r.requested <=> \E k \in keys : Sufficient(k)
            /\ r.requested =>
                  /\ Sufficient(r.valid_key)
                  /\ \A k \in keys : k < r.valid_key => ~Sufficient(k)

\* the first key is short by one character, the second is used, its request
\* fails and gTTS writes the file
C23_Witness ==
    /\ Returned("text_to_speech_elevenlabs")
    /\ Len(call.args.answers) >= 2
    /\ call.args.answers[1].status = "200"
    /\ ~Sufficient(0)
    /\ call.result.valid_key = 1
    /\ call.args.post = "500"
    /\ call.result.gtts_wrote
    /\ call.result.returned

\* C24: whatever step fails or stops, the file at json_path holds its
\* complete previous content or the complete new content; after a caught
\* failure the temporary file is gone and the error has been re-raised.
C24_AtomicSave ==
    call.fn = "save_content" =>
        /\ \/ call.result.file = call.args.old
           \/ call.result.file = Dumps(call.args.data)
        /\ pc = "returned" => call.result.file = Dumps(call.args.data)
        /\ pc = "raised" =>
              /\ call.result.file = call.args.old
              /\ ~call.result.temp_exists

\* C25: in the TYPING_OUTPUT phase the revealed character count at frame f
\* is floor((f - code_frames) / output_frames * len(output_text)), it lies in
\* 0..len(output_text), and the displayed output is output_text cut to that
\* many characters.
C25_RevealedIsFloor ==
    \A f \in Rendered :
        frames[f].phase = "TYPING_OUTPUT" =>
            LET len == Len(output_text.text)
                count == ((frames[f].frame_num - code_frames) * len)
                            \div output_frames
            IN  /\ frames[f].output_progress = count
                /\ count \in 0..len
                /\ frames[f].image.displayed_output = Prefix(output_text.text, count)

\* s_k: the frame at which typing of line k (from 0) starts
RECURSIVE StartFrame(_)
StartFrame(k) ==
    IF k = 0 THEN 0
    ELSE StartFrame(k - 1) + 2 * Len(code_lines[k]) + 3

\* the line whose slot of 2 * len + 3 frames holds frame n; len(code_lines)
\* when n is past every slot
LineAt(n) ==
    IF n >= StartFrame(Len(code_lines)) THEN Len(code_lines)
    ELSE CHOOSE k \in 0..(Len(code_lines) - 1) :
            StartFrame(k) <= n /\ n < StartFrame(k + 1)

\* what frame n of the code phase must show, and the typing state after it
Scheduled(f) ==
    LET n == frames[f].frame_num
        k == LineAt(n)
        j == n - StartFrame(k)
        shown == frames[f].code_progress
    IN  IF k = Len(code_lines) THEN shown = code_lines
        ELSE IF j < 2 * (Len(code_lines[k + 1]) + 1)
        THEN /\ Len(shown) = k + 1
             /\ shown[k + 1] = SubSeq(code_lines[k + 1], 1, j \div 2)
             /\ \A i \in 1..k : shown[i] = code_lines[i]
             /\ f = Last => (current_line = k /\ current_char = j + 1)
        ELSE /\ f > 1
             /\ shown = frames[f - 1].code_progress
             /\ shown[k + 1] = code_lines[k + 1]
             /\ f = Last => (current_line = k + 1 /\ current_char = 0)

\* C26: in the code phase typing of line k starts at frame
\* s_k = sum over j < k of (2 * len(line_j) + 3); frame s_k + j, for
\* 0 <= j < 2 * (len(line_k) + 1), shows line_k[:floor(j / 2)]; the frame
\* after those only moves on to line k + 1 with the accumulator at 0 and
\* changes no snapshot entry.
C26_TypingSchedule ==
    \A f \in Rendered :
        frames[f].phase = "TYPING_CODE" => Scheduled(f)

\* the second line is half typed and the frame that left the first line has
\* been rendered
C26_Witness ==
    /\ Last > 0
    /\ frames[Last].phase = "TYPING_CODE"
    /\ Len(code_lines) >= 2
    /\ LineAt(frames[Last].frame_num) = 1
    /\ Len(code_lines[2]) >= 4
    /\ frames[Last].frame_num - StartFrame(1) = 5
    /\ Len(frames[Last].code_progress[2]) = 2
    /\ frames[StartFrame(1)].code_progress = frames[StartFrame(1) - 1].code_progress

\* the line with snapshot index a (from 0) holds white space only
BlankLine(a) == Strip(code_lines[a + 1]) = <<>>

\* C27 (as stated): a line of white space is not typed character by
\* character: it takes a single frame and is complete in the snapshot from
\* the start, however long it is.
C27_BlankLineSkipped ==
    \A f \in Rendered :
        LET a == frames[f].image.active_line_idx
        IN  (frames[f].phase = "TYPING_CODE" /\ BlankLine(a)) =>
                /\ frames[f].code_progress[a + 1] = code_lines[a + 1]
                /\ \A g \in Rendered :
                      (g < f /\ a + 1 < Len(code_lines)) =>
                          frames[g].image.active_line_idx # a

\* C27 (amended): a line of white space is typed like any other line, one
\* character every two frames over 2 * len + 3 frames; only the compositor
\* treats blank text specially: a row whose displayed text is blank gets no
\* text drawn and still takes one row of 60 px.
C27_BlankLineTyped ==
    \A f \in Rendered :
        LET a == frames[f].image.active_line_idx
            rows == frames[f].image.code_rows
        IN  /\ (frames[f].phase = "TYPING_CODE" /\ BlankLine(a)) =>
                  LET j == frames[f].frame_num - StartFrame(a)
                  IN  /\ j >= 0
                      /\ Len(frames[f].code_progress[a + 1]) =
                            Min(j \div 2, Len(code_lines[a + 1]))
            /\ \A r \in 1..Len(rows) :
                  /\ rows[r].y_offset = 150 + 60 * (r - 1)
                  /\ rows[r].text_drawn <=>
                        \E i \in 1..Len(rows[r].displayed_line) :
                            rows[r].displayed_line[i] \notin {" ", "\t", NL}

\* a line of two or more blanks is shown with one blank typed, on a row of
\* its own without text
C27_Witness ==
    /\ Last > 0
    /\ frames[Last].phase = "TYPING_CODE"
    /\ BlankLine(frames[Last].image.active_line_idx)
    /\ Len(code_lines[frames[Last].image.active_line_idx + 1]) >= 2
    /\ Len(frames[Last].code_progress[frames[Last].image.active_line_idx + 1]) = 1
    /\ ~frames[Last].image.code_rows[Len(frames[Last].image.code_rows)].text_drawn

\* C28: in every frame that shows output, the top of the output box,
\* 1200 - box_height - 30 with box_height at most 40 + 8 * 40 + 25, is at or
\* below the bottom of the lowest drawn code row (rows of 60 px from
\* y = 150), so the box covers no drawn code line and not the active line.
C28_BoxBelowCode ==
    \A f \in Rendered :
        frames[f].image.output_box =>
            LET rows == frames[f].image.code_rows
                top == 1200 - frames[f].image.output_box_height - 30
            IN  /\ frames[f].image.output_box_height <= 40 + 8 * 40 + 25
                /\ frames[f].image.output_y_start = top
                /\ \A r \in 1..Len(rows) : rows[r].y_offset + 60 <= top

\* C29: in every frame the cursor and the highlighted band are on the row
\* of the drawn text of line len(code_progress) - 1: the row
\* r = len(code_progress) - 1 - scroll_offset is in 0..13, the cursor's y is
\* 150 + 60 * r, every drawn line above it takes exactly one row of 60 px,
\* exactly one line is highlighted, and the cursor is visible exactly when
\* floor(2 * t) is even.
C29_CursorOnActiveRow ==
    \A f \in Rendered :
        LET img == frames[f].image
            rows == img.code_rows
            r == (Len(frames[f].code_progress) - 1) - img.scroll_offset
        IN  /\ 0 <= r /\ r < 14
            /\ img.cursor.in_view
            /\ img.cursor.cursor_y = 150 + 60 * r
            /\ Len(rows) = r + 1
            /\ rows[r + 1].original_idx = Len(frames[f].code_progress) - 1
            /\ rows[r + 1].y_offset = img.cursor.cursor_y
            /\ \A i \in 1..Len(rows) :
                  /\ rows[i].y_offset = 150 + 60 * (i - 1)
                  /\ rows[i].original_idx = img.scroll_offset + (i - 1)
                  /\ rows[i].highlighted <=> i = r + 1
            /\ img.cursor.drawn <=>
                  ((2 * frames[f].frame_num) \div fps) % 2 = 0

\* the active line is below a blank line and the cursor is in the dark half
\* of its blink
C29_Witness ==
    /\ Last > 0
    /\ Len(frames[Last].image.code_rows) >= 2
    /\ ~frames[Last].image.code_rows[1].text_drawn
    /\ frames[Last].image.code_rows[Len(frames[Last].image.code_rows)].highlighted
    /\ frames[Last].image.cursor.in_view
    /\ ~frames[Last].image.cursor.drawn
    /\ frames[Last].image.cursor.cursor_y >= 210

\* the words of the lines, in order
RECURSIVE WordsOf(_)
WordsOf(lines) ==
    IF Len(lines) = 0 THEN <<>>
    ELSE SplitWords(Head(lines), <<>>) \o WordsOf(Tail(lines))

\* C30: the title word wrap keeps every word of the title exactly once and
\* in order; every line is narrower than the maximum width
\* (canvas width - 180) or is a single word; no line is empty.
C30_TitleWrap ==
    Returned("title_lines") =>
        LET lines == call.result.lines
            words == SplitWords(full_title(call.args.day, call.args.title), <<>>)
        IN  /\ WordsOf(lines) = words
            /\ \A l \in 1..Len(lines) :
                  /\ Len(lines[l]) > 0
                  /\ \/ Measure(lines[l], call.args.font) < 1080 - 180
                     \/ Len(SplitWords(lines[l], <<>>)) = 1

\* three lines or more, one of them a single word wider than the maximum
\* and one of them holding several words
C30_Witness ==
    /\ Returned("title_lines")
    /\ Len(call.result.lines) >= 3
    /\ \E l \in 1..Len(call.result.lines) :
          Measure(call.result.lines[l], call.args.font) >= 1080 - 180
    /\ \E l \in 1..Len(call.result.lines) :
          Len(SplitWords(call.result.lines[l], <<>>)) >= 2

\* the branch of get_text_chunks that uses the heuristic
OnFallbackPath == ~call.args.has_pygments \/ call.args.lex_raises

IsComment(text) ==
    LET t == Strip(text)
    IN  \/ Len(t) >= 1 /\ t[1] = "#"
        \/ Len(t) >= 2 /\ t[1] = "/" /\ t[2] = "/"
HasKeyword(text) == \E kw \in keywords : Contains(kw, Lower(text))
HasQuote(text) == \E i \in 1..Len(text) : text[i] \in {"\"", "'"}
HasDigit(text) == \E i \in 1..Len(text) : IsDigit(text[i])

\* C31: on the fallback path get_text_chunks returns exactly one segment
\* holding the whole non-empty line, coloured by the first rule that matches:
\* comment marker at the start of the stripped line, keyword in the
\* lower-cased line, quote character, digit, otherwise the default colour.
C31_FallbackPriority ==
    (Returned("get_text_chunks") /\ OnFallbackPath /\ call.args.text # <<>>) =>
        LET text == call.args.text
        IN  /\ Len(call.result) = 1
            /\ call.result[1].text = text
            /\ call.result[1].color =
                  (IF IsComment(text) THEN "#808080"
                   ELSE IF HasKeyword(text) THEN "#ff3e9d"
                   ELSE IF HasQuote(text) THEN "#00ff88"
                   ELSE IF HasDigit(text) THEN "#ffff00"
                   ELSE "#ffffff")

\* a line with a keyword in mixed case and a quote gets the keyword colour
C31_Witness ==
    /\ Returned("get_text_chunks")
    /\ OnFallbackPath
    /\ ~IsComment(call.args.text)
    /\ HasKeyword(call.args.text)
    /\ HasQuote(call.args.text)
    /\ call.args.text # Lower(call.args.text)
    /\ call.result = <<[text |-> call.args.text, color |-> "#ff3e9d"]>>

HoldFrames == {f \in Rendered : frames[f].phase = "HOLD"}

\* what a frame shows apart from its time-based decoration
Content(f) ==
    <<frames[f].code_progress, frames[f].output_progress, frames[f].show_output,
      frames[f].image.code_rows, frames[f].image.scroll_offset,
      frames[f].image.output_box, frames[f].image.displayed_output,
      frames[f].image.visible_out, frames[f].image.output_box_height>>

\* C32: every HOLD frame is given code_progress = code_lines,
\* output_progress = len(output_text) (0 without output) and
\* show_output = (output is non-empty); HOLD frames differ only in the
\* elapsed time, and no output cursor is drawn in HOLD.
C32_HoldIsStatic ==
    \A f \in HoldFrames :
        /\ frames[f].code_progress = code_lines
        /\ frames[f].output_progress =
              (IF output_text.isNone THEN 0 ELSE Len(output_text.text))
        /\ frames[f].show_output <=>
              (~output_text.isNone /\ output_text.text # <<>>)
        /\ ~frames[f].image.output_cursor
        /\ frames[f].image.displayed_output =
              (IF output_text.isNone THEN <<>> ELSE output_text.text)
        /\ \A g \in HoldFrames :
              /\ Content(g) = Content(f)
              /\ g # f => frames[g].t_val # frames[f].t_val

\* two HOLD frames with the cursor in opposite halves of its blink, after an
\* output frame that drew the output cursor
C32_Witness ==
    /\ \E f, g \in HoldFrames :
          frames[f].image.cursor.drawn /\ ~frames[g].image.cursor.drawn
    /\ \E f \in Rendered :
          frames[f].phase = "TYPING_OUTPUT" /\ frames[f].image.output_cursor

\* the frame the compositor draws for frame f's arguments with p characters
\* of the output revealed
Reveal(f, p) ==
    create_video_frame(code_lines, output_text, frames[f].code_progress, p,
                       TRUE, frames[f].t_val)

\* the revealed wrapped lines agree with the full ones and the drawn lines
\* are their tail
NoReflow(full, revealed, drawn) ==
    /\ Len(revealed) <= Len(full)
    /\ \A i \in 1..Len(revealed) :
          /\ Len(revealed[i]) <= Len(full[i])
          /\ revealed[i] = SubSeq(full[i], 1, Len(revealed[i]))
    /\ LET shown == Clamp(Len(full), 3, 8)
           k == IF Len(revealed) < shown THEN Len(revealed) ELSE shown
       IN  /\ Len(drawn) = k
           /\ Len(drawn) <= shown
           /\ \A i \in 1..k : drawn[i] = revealed[Len(revealed) - k + i]

\* C33: for every output_text and every output_progress p the wrapped lines
\* of output_text[:p] agree with those of the full text (each is a prefix of
\* the full text's line with the same index, and there are no more of them),
\* and the lines drawn are the last min(revealed count, displayed-line count)
\* of them, never more than the box was sized for.
C33_NoReflow ==
    \A f \in Rendered :
        frames[f].image.output_box =>
            LET full == WrapFrom(output_text.text, 1, <<>>)
            IN  /\ NoReflow(full,
                            WrapFrom(frames[f].image.displayed_output, 1, <<>>),
                            frames[f].image.visible_out)
                /\ \A p \in 0..Len(output_text.text) :
                      NoReflow(full,
                               WrapFrom(SubSeq(output_text.text, 1, p), 1, <<>>),
                               Reveal(f, p).visible_out)

\* one frame draws only the tail of the revealed lines, another shows a
\* line that is revealed in part and was wrapped at the character limit
C33_Witness ==
    /\ \E f \in Rendered :
          /\ frames[f].image.output_box
          /\ Len(WrapFrom(frames[f].image.displayed_output, 1, <<>>))
                > Len(frames[f].image.visible_out)
          /\ Len(frames[f].image.visible_out) = 8
    /\ \E g \in Rendered :
          /\ frames[g].image.output_box
          /\ Len(frames[g].image.visible_out) >= 1
          /\ frames[g].output_progress < Len(output_text.text)

\* C34: the division by output_frames of the output-progress computation is
\* never executed with output_frames = 0: whatever total_frames and the
\* output text are (also when floor(0.3 * total_frames) is 0), the
\* TYPING_OUTPUT branch is entered only with output_frames > 0.
C34_NoZeroDivision ==
    /\ (/\ pc = "loop"
        /\ frame_num < total_frames
        /\ Phase(frame_num, code_frames, output_frames, output_text)
              = "TYPING_OUTPUT")
          => output_frames > 0
    /\ \A f \in Rendered :
          frames[f].phase = "TYPING_OUTPUT" => output_frames > 0
    /\ pc = "raised" => fps = 0

\* a run with output whose output phase is empty went from typing the code
\* straight to HOLD and was returned
C34_Witness ==
    /\ pc = "done"
    /\ Truthy(output_text)
    /\ output_frames = 0
    /\ code_frames >= 1
    /\ frames[code_frames].phase = "TYPING_CODE"
    /\ frames[code_frames + 1].phase = "HOLD"
    /\ frames[code_frames + 1].show_output

\* C35: every run with total_frames >= 1 has at least one HOLD frame
\* (total_frames - code_frames - output_frames >= 1), so the last frame of
\* the run shows the complete code and, when there is output, the complete
\* output, however long the code is relative to the code phase.
C35_HoldAtEnd ==
    /\ (pc \in {"loop", "done"} /\ total_frames >= 1) =>
          total_frames - code_frames - output_frames >= 1
    /\ (pc \in {"loop", "done"} /\ frame_num = total_frames /\ total_frames >= 1) =>
          /\ Last = total_frames
          /\ frames[Last].phase = "HOLD"
          /\ frames[Last].code_progress = code_lines
          /\ \A i \in 1..Len(code_lines) :
                /\ i > frames[Last].image.scroll_offset
                /\ i <= frames[Last].image.scroll_offset + MAX_LINES
                => \E r \in 1..Len(frames[Last].image.code_rows) :
                      /\ frames[Last].image.code_rows[r].original_idx = i - 1
                      /\ frames[Last].image.code_rows[r].displayed_line
                            = code_lines[i]
          /\ Truthy(output_text) =>
                /\ frames[Last].show_output
                /\ frames[Last].output_progress = Len(output_text.text)
                /\ frames[Last].image.output_box
                /\ frames[Last].image.displayed_output = output_text.text

\* the code was still being typed in the last frame of the code phase, there
\* is output, and the returned run ends on a frame with both complete
C35_Witness ==
    /\ pc = "done"
    /\ code_frames >= 1
    /\ Truthy(output_text)
    /\ frames[code_frames].code_progress # code_lines
    /\ frames[Last].phase = "HOLD"
    /\ frames[Last].code_progress = code_lines
    /\ frames[Last].image.displayed_output = output_text.text

\* a step of the loop that renders a frame
FrameStep == pc = "loop" /\ Len(frames') = Len(frames) + 1

\* the call of create_video_frame in a step left its arguments and the
\* attributes of the object as they were
CallReadsOnly ==
    /\ code_progress' = frames'[Len(frames')].code_progress
    /\ code_lines' = code_lines
    /\ output_text' = output_text
    /\ scheme' = scheme
    /\ fps' = fps
    /\ day_data' = day_data

TypingStateChanged ==
    \/ current_line' # current_line
    \/ current_char' # current_char
    \/ code_progress' # code_progress

\* C36: a call of create_video_frame leaves code_progress, code_lines,
\* output_text, the scheme and the attributes of the object unchanged, so
\* (current_line, current_char, code_progress) is changed by nothing but the
\* advance step of the code phase of the loop.
C36_OnlyAdvanceChanges ==
    [][FrameStep =>
          /\ CallReadsOnly
          /\ TypingStateChanged => frame_num < code_frames]_vars

\* C36 as the code has it: the call leaves its arguments and the object
\* unchanged; current_line and current_char are changed only by the advance
\* step, and code_progress is changed by the advance step or replaced by a
\* copy of code_lines in the output and hold branches.
C36_TypingStateChanges ==
    [][FrameStep =>
          /\ CallReadsOnly
          /\ (current_line' # current_line \/ current_char' # current_char)
                => frame_num < code_frames
          /\ code_progress' # code_progress
                => \/ /\ frame_num < code_frames
                      /\ code_progress' = Advance.code_progress
                   \/ /\ frame_num >= code_frames
                      /\ code_progress' = code_lines]_vars

\* a scrolled frame was rendered from a list longer than the window, and the
\* first frame after the code phase was rendered from the copy of code_lines
\* while the frame before it had an incomplete list
C36_Witness ==
    /\ \E f \in Rendered :
          /\ frames[f].image.scroll_offset > 0
          /\ Len(frames[f].code_progress) > MAX_LINES
    /\ code_frames >= 1
    /\ Len(frames) > code_frames
    /\ frames[code_frames].code_progress # code_lines
    /\ frames[code_frames + 1].code_progress = code_lines
    /\ code_progress = code_lines

\* the days stored in a content file, as the next load will read them
Stored(file) == raw_decode(file).data

RunEnded == pc \in {"returned", "raised"}
DaySelected == pc \in {"daily_produce", "daily_upload"} \/ call.result.day > 0

\* the parts of C37 that do not depend on which saves a run makes: the day
\* processed is the first one not uploaded, a status is set only with an
\* upload that returned True, a failed upload raises, and the next run after
\* a failed upload selects the same day
DailyCommon ==
    LET st == call.result
    IN  /\ DaySelected =>
              /\ st.day \in 1..Len(Stored(st.start))
              /\ Stored(st.start)[st.day] # "uploaded"
              /\ \A j \in 1..(st.day - 1) : Stored(st.start)[j] = "uploaded"
        /\ Stored(st.file) # Stored(st.start) =>
              /\ st.upload = "True"
              /\ Stored(st.file) = [Stored(st.start) EXCEPT ![st.day] = "uploaded"]
        /\ st.upload = "False" => pc = "raised"
        /\ (DaySelected /\ st.prev.upload = "False") => st.day = st.prev.day

\* C37: over any sequence of runs, each run processes the first day in list
\* order whose status is not 'uploaded'; a status becomes 'uploaded' and the
\* content file is saved only in a run where upload_to_youtube returned True;
\* when the upload fails the run raises and the stored content is unchanged,
\* so the next run selects the same day; when every day is 'uploaded' a run
\* changes nothing.
C37_DailyRuns ==
    LET st == call.result
    IN  /\ DailyCommon
        /\ (RunEnded /\ (st.saved \/ st.repaired)) => st.upload = "True"
        /\ st.upload = "False" => st.file = st.start
        /\ (RunEnded /\ raw_decode(st.start).ok
                     /\ get_next_pending_day(Stored(st.start)) = 0)
              => st.file = st.start

\* C37 as the code has it: besides the save after a successful upload, a
\* run whose load finds more text after the first JSON value of the file
\* saves that first value back, whatever the upload answers; such a save
\* leaves the stored days and statuses as they were.
C37_DailyRunsRepair ==
    LET st == call.result
    IN  /\ DailyCommon
        /\ (RunEnded /\ st.saved) => st.upload = "True"
        /\ st.repaired => ~json_load(st.start).ok /\ raw_decode(st.start).ok
        /\ st.upload # "True" =>
              \/ st.file = st.start
              \/ st.repaired /\ st.file = Dumps(Stored(st.start))
        /\ (RunEnded /\ raw_decode(st.start).ok
                     /\ get_next_pending_day(Stored(st.start)) = 0)
              => /\ Stored(st.file) = Stored(st.start)
                 /\ ~st.saved
                 /\ st.file = st.start \/ st.repaired

\* a run found two JSON values in the file, saved the first one back,
\* processed its second day and raised after a failed upload
C37_Witness ==
    LET st == call.result
    IN  /\ pc = "raised"
        /\ st.repaired
        /\ st.upload = "False"
        /\ st.file # st.start
        /\ st.day = 2
        /\ Stored(st.file) = Stored(st.start)

====
